---- MODULE Spec2Model ----
(***************************************************************************)
(* Dev-Sentinel profile authenticity engine.                               *)
(*                                                                         *)
(* The model follows backend/services/trained_ml_analyzer.py (the engine   *)
(* wired into the web service), backend/services/simple_analyzer.py and    *)
(* backend/enhanced_red_flags.py.                                          *)
(*                                                                         *)
(* Numbers.  Python floats are modelled as exact rationals <<num, den>>    *)
(* in lowest terms with den > 0.  Classifier probabilities are integers in *)
(* thousandths.  A snapshot is modelled by the counts the extractor takes  *)
(* of it (len(commits), the number of commits for which _is_weekend is     *)
(* true, ...), since the extractor reads nothing else of the records.      *)
(***************************************************************************)
EXTENDS Integers, Sequences, FiniteSets, TLC

VARIABLES engine, req

vars == <<engine, req>>

(***************************************************************************)
(* Exact rational arithmetic standing for Python's float arithmetic.       *)
(***************************************************************************)
RECURSIVE GCD(_, _)
GCD(a, b) == IF b = 0 THEN a ELSE GCD(b, a % b)

Abs(x) == IF x < 0 THEN -x ELSE x

\* n/d in lowest terms, d > 0
Rat(n, d) ==
    LET g == GCD(Abs(n), d)
    IN  IF n >= 0 THEN <<n \div g, d \div g>> ELSE <<-((-n) \div g), d \div g>>

Whole(k) == <<k, 1>>

\* the decimal literal p/100 of the source (0.4 is Dec(40))
Dec(p) == Rat(p, 100)

RAdd(a, b) == Rat(a[1] * b[2] + b[1] * a[2], a[2] * b[2])

RSub(a, b) == Rat(a[1] * b[2] - b[1] * a[2], a[2] * b[2])

RMul(a, b) == Rat(a[1] * b[1], a[2] * b[2])

RLt(a, b) == a[1] * b[2] < b[1] * a[2]

RGt(a, b) == RLt(b, a)

RLe(a, b) == ~RLt(b, a)

RMin(a, b) == IF RLt(b, a) THEN b ELSE a

RMax(a, b) == IF RLt(a, b) THEN b ELSE a

\* Python int(x): truncation toward zero
PyInt(a) == IF a[1] >= 0 THEN a[1] \div a[2] ELSE -((-a[1]) \div a[2])

Max(a, b) == IF a < b THEN b ELSE a

\* Python's None
None == "none"

Min(a, b) == IF a < b THEN a ELSE b

(***************************************************************************)
(* The engine object: TrainedMLAnalyzer.__init__ and _load_trained_model.  *)
(***************************************************************************)
\* the names the training script writes under 'feature_names'
MetadataFeatureNames ==
    <<"commit_frequency", "weekend_commit_ratio", "night_commit_ratio",
      "original_repo_ratio", "commit_size_variance", "activity_consistency",
      "follower_repo_ratio", "language_diversity">>

\* what the process finds on disk at start-up, and which load (if any) raises
LoadEnvs ==
    [model_file : BOOLEAN, scaler_file : BOOLEAN, metadata_file : BOOLEAN,
     raises : {"none", "model", "scaler", "metadata"}]

\* the fields as __init__ sets them before _load_trained_model runs
NewEngine ==
    [model |-> "None", scaler |-> "None", feature_names |-> <<>>,
     model_metadata |-> "empty", model_loaded |-> FALSE]

\* _load_trained_model: every statement before the raising one has taken
\* effect; the except branch only sets model_loaded = False
LoadTrainedModel(env) ==
    IF ~(env.model_file /\ env.scaler_file)
    THEN NewEngine
    ELSE IF env.raises = "model"
    THEN NewEngine
    ELSE IF env.raises = "scaler"
    THEN [NewEngine EXCEPT !.model = "classifier"]
    ELSE IF env.metadata_file /\ env.raises = "metadata"
    THEN [NewEngine EXCEPT !.model = "classifier", !.scaler = "scaler"]
    ELSE IF env.metadata_file
    THEN [model |-> "classifier", scaler |-> "scaler",
          feature_names |-> MetadataFeatureNames,
          model_metadata |-> "metadata", model_loaded |-> TRUE]
    ELSE [model |-> "classifier", scaler |-> "scaler",
          feature_names |-> <<>>,
          model_metadata |-> "empty", model_loaded |-> TRUE]

Engines == {LoadTrainedModel(env) : env \in LoadEnvs}

(***************************************************************************)
(* The classifier is an opaque capability.  One prediction either raises   *)
(* inside the try block of _predict_with_ml_model (while the vector is     *)
(* built, in scaler.transform or in predict_proba) or returns the pair     *)
(* (p0, p1) of class probabilities, here in thousandths.  The artifacts the *)
(* training scripts write are scikit-learn two-class classifiers           *)
(* (ml_training/train_model.py), whose probabilities sum to 1.             *)
(***************************************************************************)
AuthenticProbs == {0, 250, 290, 500, 920, 925, 926, 1000}

Oracles ==
    [kind : {"raises"}, at : {"vector", "transform", "predict_proba"}, p1 : {0}]
    \cup [kind : {"proba"}, at : {"none"}, p1 : AuthenticProbs]

\* prediction_proba[0] and prediction_proba[1]
Proba(o) == <<1000 - o.p1, o.p1>>
\* int(p * 100) for the double p = k/1000: the product of the doubles 0.29,
\* 0.57 and 0.58 with 100 falls just below 29, 57 and 58
PyIntTimes100(k) == IF k \in {290, 570, 580} THEN (k \div 10) - 1 ELSE k \div 10

(***************************************************************************)
(* Snapshots (github_data).  A snapshot is given by the counts that         *)
(* _extract_features takes of it.                                          *)
(***************************************************************************)
\* the commit-derived part: len(commits), the commits _is_weekend and
\* _is_night_time accept, and the value of the weekly coefficient-of-variation
\* formula (lines 300-323), which only commit lists of 7 or more reach
CommitParts(counts, weekendPcts, nightPcts, consistencies) ==
    {[commits |-> 0, weekend_commits |-> 0, night_commits |-> 0,
      weekly_consistency |-> Dec(50)]}
    \cup {[commits |-> c, weekend_commits |-> (c * w) \div 100,
           night_commits |-> (c * n) \div 100, weekly_consistency |-> k] :
          c \in counts \ {0}, w \in weekendPcts, n \in nightPcts,
          k \in consistencies}

\* the repository-derived part: len(repos), the non-fork repositories and the
\* distinct non-empty languages
RepoParts(counts, originalPcts, languages) ==
    {[repositories |-> 0, original_repos |-> 0, languages |-> 0]}
    \cup {[repositories |-> r, original_repos |-> (r * o) \div 100,
           languages |-> l] :
          r \in counts \ {0}, o \in originalPcts, l \in languages}

\* user.followers and user.public_repos
SocialParts(pairs) == {[followers |-> p[1], public_repos |-> p[2]] : p \in pairs}

SnapshotsOf(commitParts, repoParts, socialParts, ages) ==
    {[account_age_days |-> a, followers |-> s.followers,
      public_repos |-> s.public_repos, commits |-> c.commits,
      weekend_commits |-> c.weekend_commits, night_commits |-> c.night_commits,
      weekly_consistency |-> c.weekly_consistency,
      repositories |-> r.repositories, original_repos |-> r.original_repos,
      languages |-> r.languages] :
     c \in commitParts, r \in repoParts, s \in socialParts, a \in ages}

\* the snapshots of the runs that cover every engine and classifier outcome
Snapshots ==
    SnapshotsOf(CommitParts({0, 200}, {5, 100}, {0, 100}, {Dec(0), Dec(50)}),
                RepoParts({0, 10}, {10, 80}, {1, 5}),
                SocialParts({<<0, 0>>, <<10, 10>>, <<10, 25>>}),
                {10, 365})

\* the snapshots of the rule-based runs: values on both sides of every
\* threshold of the score combiner and of the red-flag checks
RuleSnapshots ==
    SnapshotsOf(CommitParts({0, 20, 200}, {0, 5, 40, 45, 65, 90, 100},
                            {0, 35, 70, 100},
                            {Dec(0), Dec(45), Dec(50), Dec(100)}),
                RepoParts({0, 10}, {0, 10, 40, 80}, {1, 2, 5}),
                SocialParts({<<0, 0>>, <<10, 10>>, <<60, 10>>}),
                {10, 365, 3650})

(***************************************************************************)
(* TrainedMLAnalyzer._extract_features                                     *)
(***************************************************************************)
\* a float that a helper computes from the individual records; its value is
\* not followed here
Computed == "computed"

\* a helper's result: its documented default on an empty list
HelperValue(empty, default) == IF empty THEN default ELSE Computed

\* _calculate_activity_consistency: 0.5 below 7 commits, else the clamped
\* 1 - cv of the weekly counts
CalculateActivityConsistency(s) ==
    IF s.commits < 7 THEN Dec(50)
    ELSE RMin(Whole(1), RMax(Whole(0), s.weekly_consistency))

\* len(commits) / max(1, account_age_days) * 365
CommitFrequency(s) == Rat(s.commits * 365, Max(1, s.account_age_days))

\* fault: the cap is missing, as in SimpleAnalyzer._extract_features
UncappedCommitFrequency(x) == x

\* fault: the cap is a digit too long, min(1000, commit_frequency)
CapCommitFrequencyAt1000(x) == RMin(Whole(1000), x)

\* the cap of the returned dict: min(100, commit_frequency)
CapCommitFrequency(x) == RMin(Whole(100), x)

ExtractFeatures(s) ==
    LET noCommits == s.commits = 0
        noRepos == s.repositories = 0
    IN  [commit_frequency |-> CapCommitFrequency(CommitFrequency(s)),
         weekend_commit_ratio |-> Rat(s.weekend_commits, Max(1, s.commits)),
         night_commit_ratio |-> Rat(s.night_commits, Max(1, s.commits)),
         original_repo_ratio |-> Rat(s.original_repos, Max(1, s.repositories)),
         commit_size_variance |-> HelperValue(noCommits, Whole(0)),
         activity_consistency |-> CalculateActivityConsistency(s),
         follower_repo_ratio |->
             RMin(Whole(10), Rat(s.followers, Max(1, s.public_repos))),
         follower_following_ratio |-> HelperValue(s.followers = 0, Whole(0)),
         language_diversity |-> Whole(Min(15, s.languages)),
         avg_stars_per_repo |-> HelperValue(noRepos, Whole(0)),
         avg_forks_per_repo |-> HelperValue(noRepos, Whole(0)),
         repo_activity_ratio |-> HelperValue(noRepos, Whole(0)),
         commit_msg_quality |-> HelperValue(noCommits, Dec(50)),
         repo_size_variance |-> HelperValue(noRepos, Whole(0)),
         issue_engagement |-> HelperValue(noRepos, Whole(0)),
         account_maturity |-> RMin(Whole(1), Rat(s.account_age_days, 365)),
         timing_entropy |-> HelperValue(noCommits, Whole(0)),
         repo_naming_quality |-> HelperValue(noRepos, Dec(50)),
         contribution_diversity |-> HelperValue(noCommits, Dec(50)),
         profile_completeness |-> Computed,
         collaboration_score |-> HelperValue(noRepos, Dec(50)),
         code_quality_score |-> HelperValue(noCommits /\ noRepos, Dec(50)),
         burst_activity_score |-> HelperValue(s.commits < 10, Dec(50)),
         maintenance_score |-> HelperValue(noRepos, Dec(50))]

\* features.get(key, default)
FeatGet(f, key, default) == IF key \in DOMAIN f THEN f[key] ELSE default
(***************************************************************************)
(* Score combiner: _predict_with_rules and _predict_with_ml_model          *)
(***************************************************************************)
FallbackConfidence == 75

\* fault: the lower clamp is missing
ClampScoreNoFloor(score) == Min(100, PyInt(score))

\* the final max(0, min(100, int(score)))
ClampScore(score) == Max(0, Min(100, PyInt(score)))

\* fault: the penalty is subtracted whether or not the condition holds
PenaliseAlways(score, cond, penalty) == RSub(score, penalty)

\* one "if cond: score -= penalty" statement
Penalise(score, cond, penalty) == IF cond THEN RSub(score, penalty) ELSE score

\* _predict_with_rules, statement by statement; returns <<score, confidence>>
PredictWithRules(f) ==
    LET s0 == Whole(100)
        s1 == Penalise(s0, RGt(f.weekend_commit_ratio, Dec(40)),
                       RMul(RSub(f.weekend_commit_ratio, Dec(40)), Whole(50)))
        s2 == Penalise(s1, RGt(f.night_commit_ratio, Dec(30)),
                       RMul(RSub(f.night_commit_ratio, Dec(30)), Whole(40)))
        s3 == Penalise(s2, RLt(f.original_repo_ratio, Dec(50)),
                       RMul(RSub(Dec(50), f.original_repo_ratio), Whole(30)))
        s4 == Penalise(s3, RLt(f.activity_consistency, Dec(50)),
                       RMul(RSub(Dec(50), f.activity_consistency), Whole(25)))
        s5 == Penalise(s4, RLt(f.follower_repo_ratio, Dec(10))
                           \/ RGt(f.follower_repo_ratio, Whole(5)),
                       Whole(15))
        s6 == Penalise(s5, RLt(f.language_diversity, Whole(2)), Whole(10))
        s7 == Penalise(s6, RLt(f.commit_frequency, Whole(5))
                           \/ RGt(f.commit_frequency, Whole(100)),
                       Whole(20))
    IN  <<ClampScore(s7), FallbackConfidence>>

\* a statement of the try block of _predict_with_ml_model raises
ModelPathFails(o) == o.kind = "raises"

\* fault: a narrow except clause that catches only what the scaler raises
CaughtFromScalerOnly(o) == ModelPathFails(o) /\ o.at = "transform"

\* "except Exception" catches whatever the try block raises
Caught(o) == ModelPathFails(o)

\* fault: the score is read from the suspicious class, prediction_proba[0]
ModelPredictionWrongClass(o) ==
    <<PyIntTimes100(Proba(o)[1]), PyIntTimes100(Max(Proba(o)[1], Proba(o)[2]))>>

\* the try block: int(p1 * 100) and int(max(proba) * 100)
ModelPrediction(o) ==
    <<PyIntTimes100(Proba(o)[2]), PyIntTimes100(Max(Proba(o)[1], Proba(o)[2]))>>

\* the outcome of a call: a returned value or an exception leaving it
Return(value) == [raised |-> FALSE, value |-> value]

Raise == [raised |-> TRUE, value |-> None]

\* _predict_with_ml_model: the try block, or the rule-based pair when
\* anything in it raises
PredictWithMLModel(e, f, o) ==
    IF ~ModelPathFails(o) THEN Return(ModelPrediction(o))
    ELSE IF Caught(o) THEN Return(PredictWithRules(f))
    ELSE Raise

\* the branch of analyze_profile, lines 63-68
UsesModel(e) == e.model_loaded /\ e.model # "None"

Predict(e, f, o) ==
    IF UsesModel(e) THEN PredictWithMLModel(e, f, o)
    ELSE Return(PredictWithRules(f))

(***************************************************************************)
(* TrainedMLAnalyzer._generate_red_flags                                   *)
(***************************************************************************)
Flag(id, severity) == [id |-> id, severity |-> severity]

\* one "if cond: red_flags.append(flag)" statement
AppendIf(flags, cond, flag) == IF cond THEN Append(flags, flag) ELSE flags

\* fault: the ratio is compared with the percentage 60
WeekendSeverityPercent(f) ==
    IF RGt(f.weekend_commit_ratio, Whole(60)) THEN "high" ELSE "medium"

\* the severity expressions of the weekend and night flags
WeekendSeverity(f) ==
    IF RGt(f.weekend_commit_ratio, Dec(60)) THEN "high" ELSE "medium"

NightSeverity(f) ==
    IF RGt(f.night_commit_ratio, Dec(50)) THEN "high" ELSE "medium"

\* fault: the block reads the authentic class, prediction_proba[1]
MLRedFlagOnAuthentic(e, o, flags) ==
    IF e.model_loaded /\ o.kind = "proba"
    THEN AppendIf(flags, Proba(o)[2] > 700, Flag("ml_suspicious", "high"))
    ELSE flags

\* the "ML model specific red flag" block: hasattr(self, 'model') is always
\* true; any exception is swallowed
MLRedFlag(e, o, flags) ==
    IF e.model_loaded /\ o.kind = "proba"
    THEN AppendIf(flags, Proba(o)[1] > 700, Flag("ml_suspicious", "high"))
    ELSE flags

GenerateRedFlags(e, f, o) ==
    LET r1 == AppendIf(<<>>, RGt(f.weekend_commit_ratio, Dec(40)),
                       Flag("weekend_commits", WeekendSeverity(f)))
        r2 == AppendIf(r1, RGt(f.night_commit_ratio, Dec(30)),
                       Flag("night_commits", NightSeverity(f)))
        r3 == AppendIf(r2, RLt(f.original_repo_ratio, Dec(40)),
                       Flag("low_original_content", "medium"))
        r4 == AppendIf(r3, RLt(f.activity_consistency, Dec(40)),
                       Flag("inconsistent_activity", "medium"))
    IN  MLRedFlag(e, o, r4)

\* _generate_metrics
GenerateMetrics(s, f) ==
    [total_commits |-> s.commits,
     public_repos |-> s.public_repos,
     followers |-> s.followers,
     original_repos_percent |-> PyInt(RMul(f.original_repo_ratio, Whole(100))),
     activity_consistency |-> PyInt(RMul(f.activity_consistency, Whole(100))),
     language_diversity |-> PyInt(f.language_diversity)]

\* the ProfileAnalysis record analyze_profile returns
MakeVerdict(s, f, prediction, flags) ==
    [status |-> "ok",
     authenticity_score |-> prediction[1],
     confidence |-> prediction[2],
     red_flags |-> flags,
     metrics |-> GenerateMetrics(s, f),
     features |-> f]

\* analyze_profile as a function of the engine, the snapshot and the
\* classifier's behaviour
\* an exception leaves analyze_profile: no verdict
Failed ==
    [status |-> "raised", authenticity_score |-> None, confidence |-> None,
     red_flags |-> None, metrics |-> None, features |-> None]

AnalyzeResult(e, s, o) ==
    LET f == ExtractFeatures(s)
        p == Predict(e, f, o)
    IN  IF p.raised THEN Failed
        ELSE MakeVerdict(s, f, p.value, GenerateRedFlags(e, f, o))
(***************************************************************************)
(* Requests.  Each worker thread serves one analyze_profile call at a      *)
(* time against the one shared engine object.                              *)
(***************************************************************************)
NumWorkers == 2

Workers == 1..NumWorkers

\* the classifier is never consulted by an engine that loaded none
NoOracle == [kind |-> "absent", at |-> "none", p1 |-> 0]

OraclesFor(e, oracles) == IF e.model_loaded THEN oracles ELSE {NoOracle}

Idle ==
    [pc |-> "idle", snap |-> None, oracle |-> None, features |-> None,
     prediction |-> None, red_flags |-> None, verdict |-> None]

Received(s, o) == [Idle EXCEPT !.pc = "received", !.snap = s, !.oracle = o]

\* fault: a failed model path switches the engine to rule-based mode for good
EngineGivingUp(e, o) ==
    IF ModelPathFails(o) THEN [e EXCEPT !.model_loaded = FALSE] ELSE e

\* analyze_profile and the methods it calls assign no field of self
EngineAfterAnalysis(e, o) == e

\* analyze_profile, the whole call
AnalyzeProfile(w) ==
    /\ req[w].pc = "received"
    /\ LET r == req[w]
           v == AnalyzeResult(engine, r.snap, r.oracle)
       IN  req' = [req EXCEPT ![w] =
                      [r EXCEPT !.pc = "returned",
                                !.features = ExtractFeatures(r.snap),
                                !.prediction =
                                    <<v.authenticity_score, v.confidence>>,
                                !.red_flags = v.red_flags,
                                !.verdict = v]]
    /\ engine' = EngineAfterAnalysis(engine, req[w].oracle)

\* One call per run: the engine as construction left it, one request with its
\* snapshot and the behaviour of the classifier during it.
Init ==
    /\ engine \in Engines
    /\ \E s \in Snapshots, o \in OraclesFor(engine, Oracles) :
           req = [w \in Workers |-> IF w = 1 THEN Received(s, o) ELSE Idle]

Next == \E w \in Workers : AnalyzeProfile(w)

Spec == Init /\ [][Next]_vars

\* One call per run by an engine that found no classifier artifact, over the
\* finer grid of snapshots.
InitRules ==
    /\ engine = LoadTrainedModel([model_file |-> FALSE, scaler_file |-> FALSE,
                                  metadata_file |-> FALSE, raises |-> "none"])
    /\ \E s \in RuleSnapshots :
           req = [w \in Workers |-> IF w = 1 THEN Received(s, NoOracle) ELSE Idle]

SpecRules == InitRules /\ [][Next]_vars

(***************************************************************************)
(* Concurrent calls: analyze_profile in its four phases, interleaved       *)
(* across the workers.                                                     *)
(***************************************************************************)
EngineSnapshots ==
    {s \in SnapshotsOf(CommitParts({200}, {5, 100}, {0}, {Dec(50)}),
                       RepoParts({10}, {80}, {5}),
                       SocialParts({<<10, 10>>}), {365}) :
        s.commits > 0 /\ s.repositories > 0}

EngineOracles ==
    {o \in Oracles : o.at = "predict_proba" \/ (o.kind = "proba" /\ o.p1 \in {250, 920})}

\* a call arrives at an idle worker (or one that has returned its verdict)
Receive(w) ==
    /\ req[w].pc \in {"idle", "returned"}
    /\ \E s \in EngineSnapshots, o \in OraclesFor(engine, EngineOracles) :
           req' = [req EXCEPT ![w] = Received(s, o)]
    /\ UNCHANGED engine

\* line 61
ExtractStep(w) ==
    /\ req[w].pc = "received"
    /\ req' = [req EXCEPT ![w].pc = "extracted",
                          ![w].features = ExtractFeatures(req[w].snap)]
    /\ UNCHANGED engine

\* lines 63-68; an exception that escapes ends the call
PredictStep(w) ==
    /\ req[w].pc = "extracted"
    /\ LET p == Predict(engine, req[w].features, req[w].oracle)
       IN  req' = [req EXCEPT ![w].pc = IF p.raised THEN "returned"
                                        ELSE "predicted",
                              ![w].prediction = p.value,
                              ![w].verdict = IF p.raised THEN Failed ELSE None]
    /\ engine' = EngineAfterAnalysis(engine, req[w].oracle)

\* line 71
FlagsStep(w) ==
    /\ req[w].pc = "predicted"
    /\ req' = [req EXCEPT ![w].pc = "flagged",
                          ![w].red_flags =
                              GenerateRedFlags(engine, req[w].features,
                                               req[w].oracle)]
    /\ UNCHANGED engine

\* lines 74-95
ReturnStep(w) ==
    /\ req[w].pc = "flagged"
    /\ req' = [req EXCEPT ![w].pc = "returned",
                          ![w].verdict =
                              MakeVerdict(req[w].snap, req[w].features,
                                          req[w].prediction, req[w].red_flags)]
    /\ UNCHANGED engine

InitEngine ==
    /\ engine \in Engines
    /\ req = [w \in Workers |-> Idle]

NextEngine ==
    \E w \in Workers :
        \/ Receive(w)
        \/ ExtractStep(w)
        \/ PredictStep(w)
        \/ FlagsStep(w)
        \/ ReturnStep(w)

SpecEngine == InitEngine /\ [][NextEngine]_vars

(***************************************************************************)
(* Shorthands for the properties                                           *)
(***************************************************************************)
Returned(w) == req[w].pc = "returned"

\* the call was answered by the rule-based combiner
ByRules(w) == ~UsesModel(engine) \/ ModelPathFails(req[w].oracle)
(***************************************************************************)
(* SimpleAnalyzer (services/simple_analyzer.py)                            *)
(***************************************************************************)
\* SimpleAnalyzer._extract_features: no cap on commit_frequency, language
\* diversity capped at 10
SimpleExtractFeatures(s) ==
    [commit_frequency |-> CommitFrequency(s),
     weekend_commit_ratio |-> Rat(s.weekend_commits, Max(1, s.commits)),
     night_commit_ratio |-> Rat(s.night_commits, Max(1, s.commits)),
     original_repo_ratio |-> Rat(s.original_repos, Max(1, s.repositories)),
     commit_size_variance |-> HelperValue(s.commits = 0, Whole(0)),
     activity_consistency |-> CalculateActivityConsistency(s),
     follower_repo_ratio |->
         RMin(Whole(10), Rat(s.followers, Max(1, s.public_repos))),
     language_diversity |-> Whole(Min(10, s.languages))]

\* SimpleAnalyzer._calculate_authenticity_score, statement by statement
CalculateAuthenticityScore(f) ==
    LET s0 == Whole(100)
        s1 == Penalise(s0, RGt(f.weekend_commit_ratio, Dec(40)),
                       RMul(RSub(f.weekend_commit_ratio, Dec(40)), Whole(50)))
        s2 == Penalise(s1, RGt(f.night_commit_ratio, Dec(30)),
                       RMul(RSub(f.night_commit_ratio, Dec(30)), Whole(40)))
        s3 == Penalise(s2, RLt(f.original_repo_ratio, Dec(50)),
                       RMul(RSub(Dec(50), f.original_repo_ratio), Whole(30)))
        s4 == Penalise(s3, RLt(f.activity_consistency, Dec(50)),
                       RMul(RSub(Dec(50), f.activity_consistency), Whole(25)))
        s5 == Penalise(s4, RLt(f.follower_repo_ratio, Dec(10))
                           \/ RGt(f.follower_repo_ratio, Whole(5)),
                       Whole(15))
        s6 == Penalise(s5, RLt(f.language_diversity, Whole(2)), Whole(10))
        s7 == Penalise(s6, RLt(f.commit_frequency, Whole(5))
                           \/ RGt(f.commit_frequency, Whole(100)),
                       Whole(20))
    IN  Max(0, Min(100, PyInt(s7)))

\* SimpleAnalyzer._calculate_confidence
CalculateConfidence(s) ==
    LET c0 == 50
        c1 == IF s.commits > 50 THEN c0 + 20
              ELSE IF s.commits > 20 THEN c0 + 10 ELSE c0
        c2 == IF s.repositories > 10 THEN c1 + 15
              ELSE IF s.repositories > 5 THEN c1 + 10 ELSE c1
        c3 == IF s.account_age_days > 365 THEN c2 + 15
              ELSE IF s.account_age_days > 180 THEN c2 + 10 ELSE c2
    IN  Max(50, Min(100, c3))

\* the score and confidence of SimpleAnalyzer.analyze_profile
SimpleAnalyzeResult(s) ==
    [authenticity_score |-> CalculateAuthenticityScore(SimpleExtractFeatures(s)),
     confidence |-> CalculateConfidence(s)]

(***************************************************************************)
(* C1  The verdict of analyze_profile carries an authenticity_score and a  *)
(* confidence that are integers in [0,100], for every snapshot, with the   *)
(* classifier and with the rule-based fallback; so do the score and the    *)
(* confidence SimpleAnalyzer computes for the same snapshot.               *)
(***************************************************************************)
C1_ScoreAndConfidenceInRange ==
    \A w \in Workers :
        Returned(w) =>
            /\ req[w].verdict.status = "ok"
            /\ req[w].verdict.authenticity_score \in 0..100
            /\ req[w].verdict.confidence \in 0..100
            /\ SimpleAnalyzeResult(req[w].snap).authenticity_score \in 0..100
            /\ SimpleAnalyzeResult(req[w].snap).confidence \in 0..100

\* a rule-based verdict whose penalties add up to more than 100, and a
\* model-backed verdict
C1_Witness ==
    \E w \in Workers :
        /\ Returned(w)
        /\ ByRules(w)
        /\ req[w].verdict.authenticity_score = 0
        /\ RGt(req[w].features.weekend_commit_ratio, Dec(90))
        /\ RGt(req[w].features.night_commit_ratio, Dec(90))

(***************************************************************************)
(* C2  A verdict is always produced.  When no classifier was loaded, or    *)
(* when a statement of the model path raises during the request,           *)
(* analyze_profile returns (does not raise) the rule-based score with      *)
(* confidence exactly 75.                                                  *)
(***************************************************************************)
C2_FallbackVerdict ==
    \A w \in Workers :
        /\ Returned(w) => req[w].verdict.status = "ok"
        /\ (Returned(w) /\ ByRules(w)) =>
               /\ req[w].verdict.authenticity_score =
                      PredictWithRules(ExtractFeatures(req[w].snap))[1]
               /\ req[w].verdict.confidence = 75

\* a loaded engine whose classifier raised while the vector was built
C2_Witness ==
    \E w \in Workers :
        /\ Returned(w)
        /\ UsesModel(engine)
        /\ req[w].oracle.kind = "raises"
        /\ req[w].oracle.at = "vector"
        /\ req[w].verdict.confidence = 75

(***************************************************************************)
(* C3  The engine's mode is fixed at construction: no step of any          *)
(* analyze_profile call, in any interleaving, changes model_loaded, model, *)
(* scaler, feature_names or model_metadata; every returned verdict is the  *)
(* one the engine gives that request alone, so a request after a failed    *)
(* one still uses the model.                                               *)
(***************************************************************************)
C3_EngineFixed ==
    /\ [][engine' = engine]_vars
    /\ [](\A w \in Workers :
             Returned(w) =>
                 req[w].verdict = AnalyzeResult(engine, req[w].snap, req[w].oracle))

\* while one worker has returned a fallback verdict after its model path
\* failed, another has just scored its request with the classifier
C3_Witness ==
    \E w1, w2 \in Workers :
        /\ w1 # w2
        /\ UsesModel(engine)
        /\ Returned(w1)
        /\ ModelPathFails(req[w1].oracle)
        /\ req[w1].verdict.confidence = 75
        /\ req[w2].pc = "predicted"
        /\ req[w2].oracle.kind = "proba"
        /\ req[w2].prediction = ModelPrediction(req[w2].oracle)

(***************************************************************************)
(* C4  The rule-based score is 100 minus the sum of the penalties          *)
(* (weekend ratio w > 0.4: (w-0.4)*50; night ratio n > 0.3: (n-0.3)*40;    *)
(* original ratio o < 0.5: (0.5-o)*30; consistency a < 0.5: (0.5-a)*25;    *)
(* follower/repo ratio < 0.1 or > 5: 15; language diversity < 2: 10;       *)
(* commit frequency < 5 or > 100: 20), truncated and clamped to [0,100];   *)
(* SimpleAnalyzer._calculate_authenticity_score gives the same score for   *)
(* the same feature values.                                                *)
(***************************************************************************)
PenaltySum(f) ==
    LET w == f.weekend_commit_ratio
        n == f.night_commit_ratio
        o == f.original_repo_ratio
        a == f.activity_consistency
        pw == IF RGt(w, Rat(2, 5)) THEN Rat(50 * w[1] - 20 * w[2], w[2])
              ELSE Whole(0)
        pn == IF RGt(n, Rat(3, 10)) THEN Rat(40 * n[1] - 12 * n[2], n[2])
              ELSE Whole(0)
        po == IF RLt(o, Rat(1, 2)) THEN Rat(15 * o[2] - 30 * o[1], o[2])
              ELSE Whole(0)
        pa == IF RLt(a, Rat(1, 2)) THEN Rat(25 * a[2] - 50 * a[1], 2 * a[2])
              ELSE Whole(0)
        flat == (IF RLt(f.follower_repo_ratio, Rat(1, 10))
                    \/ RGt(f.follower_repo_ratio, Whole(5)) THEN 15 ELSE 0)
                + (IF RLt(f.language_diversity, Whole(2)) THEN 10 ELSE 0)
                + (IF RLt(f.commit_frequency, Whole(5))
                      \/ RGt(f.commit_frequency, Whole(100)) THEN 20 ELSE 0)
    IN  RAdd(RAdd(RAdd(pw, pn), RAdd(po, pa)), Whole(flat))

C4_RuleScoreFormula ==
    \A w \in Workers :
        (Returned(w) /\ ByRules(w)) =>
            LET f == req[w].features
                exact == RSub(Whole(100), PenaltySum(f))
                expected == IF RLt(exact, Whole(0)) THEN 0 ELSE PyInt(exact)
            IN  /\ req[w].verdict.authenticity_score = expected
                /\ CalculateAuthenticityScore(f) = expected

\* a fractional total (98.75) that truncation turns into 98
C4_Witness ==
    \E w \in Workers :
        /\ Returned(w)
        /\ ByRules(w)
        /\ PenaltySum(req[w].features) = Rat(5, 4)
        /\ req[w].verdict.authenticity_score = 98
(***************************************************************************)
(* EnhancedRedFlagDetector (enhanced_red_flags.py): the checks that read   *)
(* the weekend and night ratios, and the account-maturity check.           *)
(***************************************************************************)
\* self.thresholds, as ratios
Thresholds ==
    [weekend_commits |-> [medium |-> Dec(40), high |-> Dec(60), critical |-> Dec(80)],
     night_commits |-> [medium |-> Dec(30), high |-> Dec(50), critical |-> Dec(70)],
     original_ratio |-> [medium |-> Dec(40), high |-> Dec(20), critical |-> Dec(10)],
     commit_frequency |-> [low |-> Whole(5), high |-> Whole(100),
                           extreme |-> Whole(200)],
     burst_activity |-> [medium |-> Dec(60), high |-> Dec(40), critical |-> Dec(20)],
     follower_ratio |-> [low |-> Dec(10), high |-> Whole(5), extreme |-> Whole(20)]]

\* fault: the labels of the two upper tiers are exchanged
WeekendActivityFlagsSwapped(f) ==
    LET r == FeatGet(f, "weekend_commit_ratio", Whole(0))
    IN  IF RGt(r, Thresholds.weekend_commits.critical)
        THEN <<Flag("extreme_weekend_activity", "high")>>
        ELSE IF RGt(r, Thresholds.weekend_commits.high)
        THEN <<Flag("high_weekend_activity", "critical")>>
        ELSE IF RGt(r, Thresholds.weekend_commits.medium)
        THEN <<Flag("elevated_weekend_activity", "medium")>>
        ELSE <<>>

\* _analyze_temporal_patterns, "Weekend activity analysis"
WeekendActivityFlags(f) ==
    LET r == FeatGet(f, "weekend_commit_ratio", Whole(0))
    IN  IF RGt(r, Thresholds.weekend_commits.critical)
        THEN <<Flag("extreme_weekend_activity", "critical")>>
        ELSE IF RGt(r, Thresholds.weekend_commits.high)
        THEN <<Flag("high_weekend_activity", "high")>>
        ELSE IF RGt(r, Thresholds.weekend_commits.medium)
        THEN <<Flag("elevated_weekend_activity", "medium")>>
        ELSE <<>>

\* _analyze_temporal_patterns, "Night activity analysis": no medium tier
NightActivityFlags(f) ==
    LET r == FeatGet(f, "night_commit_ratio", Whole(0))
    IN  IF RGt(r, Thresholds.night_commits.critical)
        THEN <<Flag("extreme_night_activity", "critical")>>
        ELSE IF RGt(r, Thresholds.night_commits.high)
        THEN <<Flag("high_night_activity", "high")>>
        ELSE <<>>

\* _analyze_cross_patterns
AnalyzeCrossPatterns(f) ==
    LET weekend == FeatGet(f, "weekend_commit_ratio", Whole(0))
        night == FeatGet(f, "night_commit_ratio", Whole(0))
        original == FeatGet(f, "original_repo_ratio", Whole(0))
        freq == FeatGet(f, "commit_frequency", Whole(0))
        consistency == FeatGet(f, "activity_consistency", Dec(50))
        r1 == AppendIf(<<>>, RGt(weekend, Dec(50)) /\ RGt(night, Dec(40)),
                       Flag("combined_temporal_anomaly", "critical"))
        r2 == AppendIf(r1, RLt(original, Dec(30)) /\ RGt(freq, Whole(100)),
                       Flag("volume_vs_originality_mismatch", "high"))
    IN  AppendIf(r2, RGt(consistency, Dec(95))
                     /\ (RGt(weekend, Dec(40)) \/ RGt(night, Dec(30))),
                 Flag("perfect_consistency_anomaly", "high"))

\* _analyze_account_maturity; s is github_data
AnalyzeAccountMaturity(f, s) ==
    LET r1 == AppendIf(<<>>, s.account_age_days < 30
                             /\ RGt(FeatGet(f, "commit_frequency", Whole(0)),
                                    Whole(50)),
                       Flag("new_account_high_activity", "high"))
    IN  AppendIf(r1, RLt(FeatGet(f, "account_maturity", Whole(0)), Dec(10))
                     /\ RGt(FeatGet(f, "public_repos", Whole(0)), Whole(20)),
                 Flag("maturity_activity_mismatch", "medium"))

\* the order of the severities, with 0 for "no flag"
SeverityRank(sev) ==
    CASE sev = "low" -> 1
      [] sev = "medium" -> 2
      [] sev = "high" -> 3
      [] sev = "critical" -> 4

RECURSIVE TopRank(_)
TopRank(flags) ==
    IF flags = <<>> THEN 0
    ELSE Max(SeverityRank(Head(flags).severity), TopRank(Tail(flags)))

HasSeverity(flags, sev) == \E i \in 1..Len(flags) : flags[i].severity = sev

HasFlag(flags, id, sev) ==
    \E i \in 1..Len(flags) : flags[i].id = id /\ flags[i].severity = sev

IsWeekendRelated(flag) ==
    flag.id \in {"combined_temporal_anomaly", "perfect_consistency_anomaly"}

\* the weekend flag and the two cross-pattern flags that read the weekend ratio
WeekendRelatedFlags(f) ==
    WeekendActivityFlags(f) \o SelectSeq(AnalyzeCrossPatterns(f), IsWeekendRelated)

(***************************************************************************)
(* C5  Monotonicity in weekend_commit_ratio: of two feature vectors that   *)
(* differ only in that ratio, the one with the larger ratio never has a    *)
(* lower severity or fewer weekend-related red flags (the weekend flag,    *)
(* combined_temporal_anomaly, perfect_consistency_anomaly) and never has a *)
(* higher rule-based score.                                                *)
(***************************************************************************)
WeekendRatios == {Dec(p) : p \in {0, 5, 40, 45, 50, 55, 60, 65, 80, 85, 90, 100}}

C5_WeekendMonotone ==
    \A w \in Workers :
        Returned(w) =>
            \A r \in WeekendRatios :
                LET f == req[w].features
                    g == [f EXCEPT !.weekend_commit_ratio = r]
                IN  RLe(f.weekend_commit_ratio, r) =>
                        /\ TopRank(WeekendActivityFlags(g))
                               >= TopRank(WeekendActivityFlags(f))
                        /\ TopRank(WeekendRelatedFlags(g))
                               >= TopRank(WeekendRelatedFlags(f))
                        /\ Len(WeekendRelatedFlags(g)) >= Len(WeekendRelatedFlags(f))
                        /\ TopRank(GenerateRedFlags(engine, g, req[w].oracle))
                               >= TopRank(GenerateRedFlags(engine, f, req[w].oracle))
                        /\ PredictWithRules(g)[1] <= PredictWithRules(f)[1]

\* a vector at 45% weekend commits for which raising the ratio to 90% adds
\* weekend-related flags, raises the severity and lowers the score
C5_Witness ==
    \E w \in Workers :
        /\ Returned(w)
        /\ req[w].features.weekend_commit_ratio = Dec(45)
        /\ LET f == req[w].features
               g == [f EXCEPT !.weekend_commit_ratio = Dec(90)]
           IN  /\ Len(WeekendRelatedFlags(f)) = 1
               /\ Len(WeekendRelatedFlags(g)) = 2
               /\ TopRank(WeekendActivityFlags(f)) = 2
               /\ TopRank(WeekendActivityFlags(g)) = 4
               /\ PredictWithRules(g)[1] < PredictWithRules(f)[1]

(***************************************************************************)
(* C6  Scenario 1: with the rule-based fallback, a snapshot with 200       *)
(* commits a year, 5% weekend commits, 80% original repositories and 5     *)
(* languages, its other signals unpenalised, scores at least 85 and has no *)
(* red flag of severity critical.                                          *)
(***************************************************************************)
Scenario1(s) ==
    /\ CommitFrequency(s) = Whole(200)
    /\ Rat(s.weekend_commits, Max(1, s.commits)) = Dec(5)
    /\ Rat(s.original_repos, Max(1, s.repositories)) = Dec(80)
    /\ s.languages = 5
    /\ RLe(Rat(s.night_commits, Max(1, s.commits)), Dec(30))
    /\ RLe(Dec(50), CalculateActivityConsistency(s))
    /\ RLe(Dec(10), Rat(s.followers, Max(1, s.public_repos)))
    /\ RLe(Rat(s.followers, Max(1, s.public_repos)), Whole(5))

C6_Scenario1 ==
    \A w \in Workers :
        (Returned(w) /\ ByRules(w) /\ Scenario1(req[w].snap)) =>
            /\ req[w].verdict.status = "ok"
            /\ req[w].verdict.authenticity_score >= 85
            /\ ~HasSeverity(req[w].verdict.red_flags, "critical")

C6_Witness ==
    \E w \in Workers :
        /\ Returned(w)
        /\ ByRules(w)
        /\ Scenario1(req[w].snap)
        /\ req[w].snap.commits = 200
        /\ req[w].verdict.authenticity_score = 100

(***************************************************************************)
(* C7  Scenario 2: with the rule-based fallback, a snapshot with 90%       *)
(* weekend commits, 70% night commits, 10% original repositories and 1     *)
(* language, whatever its other signals.                                   *)
(***************************************************************************)
Scenario2(s) ==
    /\ Rat(s.weekend_commits, Max(1, s.commits)) = Dec(90)
    /\ Rat(s.night_commits, Max(1, s.commits)) = Dec(70)
    /\ Rat(s.original_repos, Max(1, s.repositories)) = Dec(10)
    /\ s.languages = 1

Scenario3(w) ==
    /\ Returned(w)
    /\ UsesModel(engine)
    /\ req[w].oracle.kind = "proba"
    /\ req[w].oracle.p1 = 920

\* C8 as claimed: score 92 and confidence 95
C8_Scenario3_AsClaimed ==
    \A w \in Workers :
        Scenario3(w) =>
            /\ req[w].verdict.authenticity_score = 92
            /\ req[w].verdict.confidence = 95

\* C8 as amended: score 92 and confidence 92, the winning class being the
\* authentic one; both come from the classifier whatever the rule-based
\* score of the snapshot is
C8_Scenario3_Amended ==
    \A w \in Workers :
        Scenario3(w) =>
            /\ req[w].verdict.status = "ok"
            /\ req[w].verdict.authenticity_score = 92
            /\ req[w].verdict.confidence = 92

\* the classifier's 92 is returned for a snapshot the rules would score 0
C8_Witness ==
    \E w \in Workers :
        /\ Scenario3(w)
        /\ PredictWithRules(req[w].features)[1] = 0
        /\ req[w].verdict.authenticity_score = 92

(***************************************************************************)
(* C9  Every signal name the score combiner and the red-flag detectors     *)
(* read is a key of the vector _extract_features returns, and the key set  *)
(* is that of ComprehensiveFeatures.                                       *)
(***************************************************************************)
\* models/analysis_models.py, class ComprehensiveFeatures
ComprehensiveFeaturesFields ==
    {"commit_frequency", "weekend_commit_ratio", "night_commit_ratio",
     "original_repo_ratio", "commit_size_variance", "activity_consistency",
     "follower_repo_ratio", "follower_following_ratio", "language_diversity",
     "avg_stars_per_repo", "avg_forks_per_repo", "repo_activity_ratio",
     "commit_msg_quality", "repo_size_variance", "issue_engagement",
     "account_maturity", "timing_entropy", "repo_naming_quality",
     "contribution_diversity", "profile_completeness", "collaboration_score",
     "code_quality_score", "burst_activity_score", "maintenance_score"}

\* the keys _predict_with_rules and _generate_red_flags subscript
AnalyzerReadKeys ==
    {"weekend_commit_ratio", "night_commit_ratio", "original_repo_ratio",
     "activity_consistency", "follower_repo_ratio", "language_diversity",
     "commit_frequency"}

\* the keys the EnhancedRedFlagDetector checks pass to features.get
DetectorReadKeys ==
    {"weekend_commit_ratio", "night_commit_ratio", "timing_entropy",
     "original_repo_ratio", "repo_naming_quality", "maintenance_score",
     "follower_repo_ratio", "profile_completeness", "commit_frequency",
     "commit_msg_quality", "burst_activity_score", "account_maturity",
     "public_repos", "activity_consistency"}

\* C9 as claimed
C9_ReadKeysPresent ==
    \A w \in Workers :
        (Returned(w) /\ req[w].verdict.status = "ok") =>
            /\ AnalyzerReadKeys \subseteq DOMAIN req[w].features
            /\ DetectorReadKeys \subseteq DOMAIN req[w].features
            /\ DOMAIN req[w].features = ComprehensiveFeaturesFields

(***************************************************************************)
(* C10  Default-on-empty: a snapshot with zero commits and zero            *)
(* repositories gets a valid verdict whose confidence is at most 50.       *)
(***************************************************************************)
\* C10 as claimed
C10_EmptyLowConfidence ==
    \A w \in Workers :
        (Returned(w) /\ req[w].snap.commits = 0 /\ req[w].snap.repositories = 0) =>
            /\ req[w].verdict.status = "ok"
            /\ req[w].verdict.confidence <= 50

(***************************************************************************)
(* Snapshots record by record.  github_data is a dict of sections; a       *)
(* commit and a repository are dicts of fields.  A key may be missing (the *)
(* code's .get default applies), hold None, or hold a value.  Strings are  *)
(* given by the properties the analyzer reads of them.                     *)
(***************************************************************************)
\* an integer field
Num(k) == [kind |-> "value", v |-> k]

Missing == [kind |-> "missing", v |-> 0]

Null == [kind |-> "null", v |-> 0]

\* a date field.  A timestamp datetime.fromisoformat accepts is given by its
\* day (counted from the Monday that opens ISO week 1 of its year), its hour,
\* and whether it carries a UTC offset ('Z' or '+00:00')
Timestamp(day, hour, aware) ==
    [kind |-> "value", day |-> day, hour |-> hour, aware |-> aware]

\* a string fromisoformat rejects (ValueError)
Unparsable == [kind |-> "unparsable", day |-> 0, hour |-> 0, aware |-> FALSE]

MissingDate == [kind |-> "missing", day |-> 0, hour |-> 0, aware |-> FALSE]

NullDate == [kind |-> "null", day |-> 0, hour |-> 0, aware |-> FALSE]

\* a commit message: blank (empty after strip), 10 <= len <= 72, first
\* character upper case, ends with '.', contains one of the "meaningful"
\* words, and the first category of _analyze_contribution_types whose
\* keyword it contains
Message(blank, lenOk, capital, period, meaningful, category) ==
    [kind |-> "value", blank |-> blank, len_ok |-> lenOk, capital |-> capital,
     period |-> period, meaningful |-> meaningful, category |-> category]

\* the default '' of commit.get('message', '')
MissingMessage ==
    [Message(TRUE, FALSE, FALSE, FALSE, FALSE, "none") EXCEPT !.kind = "missing"]

NullMessage ==
    [Message(TRUE, FALSE, FALSE, FALSE, FALSE, "none") EXCEPT !.kind = "null"]

\* a repository name: contains a generic word, contains '-' or '_',
\* 3 <= len <= 30
Name(generic, separator, lenOk) ==
    [kind |-> "value", generic |-> generic, separator |-> separator,
     len_ok |-> lenOk]

\* the default '' of repo.get('name', '')
MissingName == [Name(FALSE, FALSE, FALSE) EXCEPT !.kind = "missing"]

NullName == [Name(FALSE, FALSE, FALSE) EXCEPT !.kind = "null"]

\* dict.get(key, default) of an integer field that is not None
IntOf(x, default) == IF x.kind = "missing" THEN default ELSE x.v

\* a section of github_data: a list, or no such key
Section(list) == [kind |-> "value", v |-> list]

NoSection == [kind |-> "absent", v |-> <<>>]

\* github_data.get('commits', []) and github_data.get('repositories', [])
CommitsOf(g) == g.commits.v

ReposOf(g) == g.repositories.v

\* github_data['user'], or no such key
User(followers, following, publicRepos, filled) ==
    [kind |-> "value", followers |-> followers, following |-> following,
     public_repos |-> publicRepos, filled |-> filled]

NoUser ==
    [kind |-> "absent", followers |-> 0, following |-> 0, public_repos |-> 0,
     filled |-> 0]

(***************************************************************************)
(* Arithmetic over lists                                                   *)
(***************************************************************************)
RECURSIVE SumInts(_)
SumInts(q) == IF q = <<>> THEN 0 ELSE Head(q) + SumInts(Tail(q))

RECURSIVE RSum(_)
RSum(q) == IF q = <<>> THEN Whole(0) ELSE RAdd(Head(q), RSum(Tail(q)))

\* a / b for b > 0
RDiv(a, b) == Rat(a[1] * b[2], a[2] * b[1])

\* sum(1 for x in q if P(x))
CountIf(q, P(_)) == Cardinality({i \in 1..Len(q) : P(q[i])})

\* np.mean and np.var of a non-empty list of integers
Mean(q) == Rat(SumInts(q), Len(q))

Variance(q) ==
    Rat(Len(q) * SumInts([i \in 1..Len(q) |-> q[i] * q[i]])
            - SumInts(q) * SumInts(q),
        Len(q) * Len(q))

\* the largest r in lo..hi with r * r <= x
RECURSIVE ISqrtIn(_, _, _)
ISqrtIn(x, lo, hi) ==
    IF lo >= hi THEN lo
    ELSE LET mid == (lo + hi + 1) \div 2
         IN  IF mid * mid <= x THEN ISqrtIn(x, mid, hi)
             ELSE ISqrtIn(x, lo, mid - 1)

\* np.std from the variance: the square root, to two decimals
RSqrt(a) == Rat(ISqrtIn((a[1] * 10000) \div a[2], 0, 4000), 100)

\* np.log2 of the integers 1..24, in ten-thousandths
Log2Table ==
    <<0, 10000, 15850, 20000, 23219, 25850, 28074, 30000, 31699, 33219, 34594,
      35850, 37004, 38074, 39069, 40000, 40875, 41699, 42479, 43219, 43923,
      44594, 45236, 45850>>

\* np.log2(p) for p = count / total
Log2(p) == Rat(Log2Table[p[1]] - Log2Table[p[2]], 10000)

\* the set of the elements of a list
Distinct(q) == {q[i] : i \in 1..Len(q)}

RECURSIVE SetToSeq(_)
SetToSeq(S) ==
    IF S = {} THEN <<>>
    ELSE LET x == CHOOSE y \in S : TRUE IN <<x>> \o SetToSeq(S \ {x})

\* list(d.values()) of the dict that counts the occurrences of each key
GroupCounts(keys) ==
    LET ks == SetToSeq(Distinct(keys))
    IN  [i \in 1..Len(ks) |-> CountIf(keys, LAMBDA k : k = ks[i])]

(***************************************************************************)
(* The helpers of _extract_features, record by record                      *)
(***************************************************************************)
\* _is_weekend: Saturday or Sunday; False when the date does not parse
IsWeekend(date) == date.kind = "value" /\ date.day % 7 >= 5

\* _is_night_time: hour >= 22 or hour <= 6; False when the date does not parse
IsNightTime(date) == date.kind = "value" /\ (date.hour >= 22 \/ date.hour <= 6)

\* _is_recently_active at wall-clock day now.  datetime.now() is naive: the
\* comparison with a timestamp that carries an offset raises TypeError, which
\* the bare except turns into False
IsRecentlyActive(updated_at, now) ==
    /\ updated_at.kind = "value"
    /\ ~updated_at.aware
    /\ updated_at.day > now - 180

\* the dates of the commits that the try blocks do not skip
ParsedDates(commits) ==
    SelectSeq([i \in 1..Len(commits) |-> commits[i].date],
              LAMBDA d : d.kind = "value")

\* commit.get('additions', 0) + commit.get('deletions', 0)
CommitSize(c) == IntOf(c.additions, 0) + IntOf(c.deletions, 0)

CommitSizes(commits) == [i \in 1..Len(commits) |-> CommitSize(commits[i])]

\* np.var(sizes) / (np.mean(sizes) + 1) if sizes else 0
NormalisedVariance(sizes) ==
    IF sizes = <<>> THEN Whole(0)
    ELSE RDiv(Variance(sizes), RAdd(Mean(sizes), Whole(1)))

\* fault: the min(1.0, ...) of the returned dict is missing
UncappedVariance(x) == x

\* min(1.0, commit_size_variance) and min(1.0, repo_size_variance)
CapVariance(x) == RMin(Whole(1), x)

\* _calculate_activity_consistency from line 300 on, before the final clamp:
\* 0.0 when no date parses, else 1 - std / mean of the weekly counts
WeeklyConsistency(commits) ==
    LET dates == ParsedDates(commits)
        counts == GroupCounts([i \in 1..Len(dates) |-> dates[i].day \div 7 + 1])
    IN  IF counts = <<>> THEN Whole(0)
        ELSE RSub(Whole(1), RDiv(RSqrt(Variance(counts)), Mean(counts)))

\* followers / max(1, following) if following > 0 else 0
FollowerFollowingRatio(u) ==
    IF u.following > 0 THEN Rat(u.followers, Max(1, u.following)) ELSE Whole(0)

\* _analyze_commit_messages
MessageScore(m) ==
    RSum(<<IF m.len_ok THEN Dec(30) ELSE Whole(0),
           IF m.capital THEN Dec(20) ELSE Whole(0),
           IF ~m.period THEN Dec(20) ELSE Whole(0),
           IF m.meaningful THEN Dec(30) ELSE Whole(0)>>)

AnalyzeCommitMessages(commits) ==
    IF commits = <<>> THEN Dec(50)
    ELSE LET msgs == SelectSeq([i \in 1..Len(commits) |-> commits[i].message],
                               LAMBDA m : ~m.blank)
         IN  RDiv(RSum([i \in 1..Len(msgs) |-> MessageScore(msgs[i])]),
                  Whole(Max(1, Len(msgs))))

\* _analyze_hourly_patterns: the non-zero entries of hourly_counts
AnalyzeHourlyPatterns(commits) ==
    LET dates == ParsedDates(commits)
    IN  GroupCounts([i \in 1..Len(dates) |-> dates[i].hour])

\* _calculate_entropy
CalculateEntropy(distribution) ==
    LET total == SumInts(distribution)
    IN  IF total = 0 THEN Whole(0)
        ELSE RDiv(RSum([i \in 1..Len(distribution) |->
                           LET pr == <<distribution[i], total>>
                           IN  RSub(Whole(0),
                                    RMul(Rat(pr[1], pr[2]), Log2(pr)))]),
                  Rat(Log2Table[24], 10000))

\* _analyze_repo_names
NameScore(n) ==
    RSum(<<IF ~n.generic THEN Dec(40) ELSE Whole(0),
           IF n.separator THEN Dec(30) ELSE Whole(0),
           IF n.len_ok THEN Dec(30) ELSE Whole(0)>>)

AnalyzeRepoNames(repos) ==
    IF repos = <<>> THEN Dec(50)
    ELSE RDiv(RSum([i \in 1..Len(repos) |-> NameScore(repos[i].name)]),
              Whole(Len(repos)))

\* _analyze_contribution_types: used categories / 6
AnalyzeContributionTypes(commits) ==
    IF commits = <<>> THEN Dec(50)
    ELSE Rat(Cardinality({commits[i].message.category : i \in 1..Len(commits)}
                         \ {"none"}),
             6)

\* _calculate_profile_completeness: the seven text fields that are filled in,
\* and public_repos > 0
CalculateProfileCompleteness(u) ==
    Rat(u.filled + (IF u.public_repos > 0 THEN 1 ELSE 0), 8)

\* _calculate_collaboration_score
CollaborationIndicators(r) ==
    RSum(<<IF r.forks_count > 0 THEN Dec(50) ELSE Whole(0),
           IF r.stargazers_count > 0 THEN Dec(30) ELSE Whole(0),
           IF r.open_issues_count > 0 THEN Dec(20) ELSE Whole(0)>>)

CalculateCollaborationScore(repos) ==
    IF repos = <<>> THEN Dec(50)
    ELSE RMin(Whole(1),
              RDiv(RSum([i \in 1..Len(repos) |-> CollaborationIndicators(repos[i])]),
                   Whole(Len(repos))))

\* _estimate_code_quality
EstimateCodeQuality(repos, commits) ==
    LET q0 == Dec(50)
        q1 == IF repos # <<>>
                 /\ RGt(Rat(CountIf(repos, LAMBDA r : r.description), Len(repos)),
                        Dec(50))
              THEN RAdd(q0, Dec(20)) ELSE q0
        q2 == IF repos # <<>>
                 /\ RGt(Rat(CountIf(repos, LAMBDA r : IntOf(r.size, 0) > 10),
                            Len(repos)),
                        Dec(30))
              THEN RAdd(q1, Dec(20)) ELSE q1
        q3 == IF commits # <<>>
                 /\ RGt(Rat(CountIf(commits,
                                    LAMBDA c : 5 <= CommitSize(c)
                                               /\ CommitSize(c) <= 500),
                            Len(commits)),
                        Dec(60))
              THEN RAdd(q2, Dec(10)) ELSE q2
    IN  RMin(Whole(1), q3)

\* fault: a day is a burst day as soon as it exceeds the mean daily count
DetectBurstPatternsAboveMean(commits) ==
    LET dates == ParsedDates(commits)
        counts == GroupCounts([i \in 1..Len(dates) |-> dates[i].day])
    IN  IF Len(commits) < 10 \/ counts = <<>> THEN Dec(50)
        ELSE LET burstDays ==
                     CountIf(counts, LAMBDA n : RGt(Whole(n), Mean(counts)))
             IN  RMax(Whole(0),
                      RSub(Whole(1),
                           RMul(Rat(burstDays, Len(counts)), Whole(2))))

\* _detect_burst_patterns
DetectBurstPatterns(commits) ==
    LET dates == ParsedDates(commits)
        counts == GroupCounts([i \in 1..Len(dates) |-> dates[i].day])
    IN  IF Len(commits) < 10 \/ counts = <<>> THEN Dec(50)
        ELSE LET burstDays ==
                     CountIf(counts,
                             LAMBDA n : RGt(Whole(n),
                                            RMul(Mean(counts), Whole(3))))
             IN  RMax(Whole(0),
                      RSub(Whole(1),
                           RMul(Rat(burstDays, Len(counts)), Whole(2))))

\* _calculate_maintenance_score at wall-clock day now
RepoMaintenance(r, now) ==
    RSum(<<IF IsRecentlyActive(r.updated_at, now) THEN Dec(40) ELSE Whole(0),
           IF r.has_releases THEN Dec(30) ELSE Whole(0),
           IF ~r.archived THEN Dec(30) ELSE Whole(0)>>)

CalculateMaintenanceScore(repos, now) ==
    IF repos = <<>> THEN Dec(50)
    ELSE RDiv(RSum([i \in 1..Len(repos) |-> RepoMaintenance(repos[i], now)]),
              Whole(Len(repos)))

(***************************************************************************)
(* _extract_features and analyze_profile over the records                  *)
(***************************************************************************)
\* the counts _extract_features takes of the snapshot (lines 162-199)
CountsOf(g) ==
    LET commits == CommitsOf(g)
        repos == ReposOf(g)
    IN  [account_age_days |-> IntOf(g.account_age_days, 1),
         followers |-> g.user.followers,
         public_repos |-> g.user.public_repos,
         commits |-> Len(commits),
         weekend_commits |-> CountIf(commits, LAMBDA c : IsWeekend(c.date)),
         night_commits |-> CountIf(commits, LAMBDA c : IsNightTime(c.date)),
         weekly_consistency |-> WeeklyConsistency(commits),
         repositories |-> Len(repos),
         original_repos |-> CountIf(repos, LAMBDA r : ~r.fork),
         languages |->
             Cardinality({repos[i].language : i \in 1..Len(repos)} \ {""})]

\* sum(r.get(key, 0) for r in repos) / max(1, len(repos))
AveragePerRepo(repos, F(_)) ==
    Rat(SumInts([i \in 1..Len(repos) |-> F(repos[i])]), Max(1, Len(repos)))

\* the vector _extract_features returns at wall-clock day now, when no
\* statement of it raises
RawFeatures(g, now) ==
    LET commits == CommitsOf(g)
        repos == ReposOf(g)
        sizes == SelectSeq([i \in 1..Len(repos) |-> IntOf(repos[i].size, 0)],
                           LAMBDA k : k > 0)
    IN  [ExtractFeatures(CountsOf(g)) EXCEPT
            !.commit_size_variance =
                CapVariance(NormalisedVariance(CommitSizes(commits))),
            !.follower_following_ratio =
                RMin(Whole(10), FollowerFollowingRatio(g.user)),
            !.avg_stars_per_repo =
                RMin(Whole(100),
                     AveragePerRepo(repos, LAMBDA r : r.stargazers_count)),
            !.avg_forks_per_repo =
                RMin(Whole(50), AveragePerRepo(repos, LAMBDA r : r.forks_count)),
            !.repo_activity_ratio =
                Rat(CountIf(repos, LAMBDA r : IsRecentlyActive(r.updated_at, now)),
                    Max(1, Len(repos))),
            !.commit_msg_quality = AnalyzeCommitMessages(commits),
            !.repo_size_variance = CapVariance(NormalisedVariance(sizes)),
            !.issue_engagement =
                RMin(Whole(20),
                     AveragePerRepo(repos, LAMBDA r : r.open_issues_count)),
            !.timing_entropy = CalculateEntropy(AnalyzeHourlyPatterns(commits)),
            !.repo_naming_quality = AnalyzeRepoNames(repos),
            !.contribution_diversity = AnalyzeContributionTypes(commits),
            !.profile_completeness = CalculateProfileCompleteness(g.user),
            !.collaboration_score = CalculateCollaborationScore(repos),
            !.code_quality_score = EstimateCodeQuality(repos, commits),
            !.burst_activity_score = DetectBurstPatterns(commits),
            !.maintenance_score = CalculateMaintenanceScore(repos, now)]

\* the exception that leaves _extract_features, "none" when it returns:
\* None + int (line 181), None.strip() (line 343), None > 0 (line 215),
\* None.lower() (line 406), in the order the statements run
ExtractionError(g) ==
    LET commits == CommitsOf(g)
        repos == ReposOf(g)
    IN  IF \E i \in 1..Len(commits) :
              commits[i].additions.kind = "null"
              \/ commits[i].deletions.kind = "null"
        THEN "TypeError"
        ELSE IF \E i \in 1..Len(commits) : commits[i].message.kind = "null"
        THEN "AttributeError"
        ELSE IF \E i \in 1..Len(repos) : repos[i].size.kind = "null"
        THEN "TypeError"
        ELSE IF \E i \in 1..Len(repos) : repos[i].name.kind = "null"
        THEN "AttributeError"
        ELSE "none"

\* _extract_features
ExtractFeaturesRaw(g, now) ==
    IF ExtractionError(g) # "none" THEN Raise ELSE Return(RawFeatures(g, now))

\* _generate_repository_health lists the ten repositories with most stars
\* (sorted is stable); repos[i] is one of them
InTopRepositories(repos, i) ==
    Cardinality({j \in 1..Len(repos) :
                    \/ repos[j].stargazers_count > repos[i].stargazers_count
                    \/ /\ repos[j].stargazers_count = repos[i].stargazers_count
                       /\ j < i}) < 10

\* the exception that leaves analyze_profile after the extraction, "none"
\* when it returns: RepositoryInfo(last_updated=None) fails validation
\* (line 716), github_data['username'] raises KeyError (line 86)
AssemblyError(g) ==
    LET repos == ReposOf(g)
    IN  IF \E i \in 1..Len(repos) :
              InTopRepositories(repos, i) /\ repos[i].updated_at.kind = "null"
        THEN "ValidationError"
        ELSE IF ~g.username THEN "KeyError"
        ELSE "none"

\* the month index (date.month - 1) of a timestamp, in months of 30 days
MonthOf(date) == (date.day \div 30) % 12

\* the bucket of the commit-size histogram a size falls into
SizeBucket(size) ==
    IF size = 0 THEN 0
    ELSE IF size <= 5 THEN 1
    ELSE IF size <= 20 THEN 2
    ELSE IF size <= 50 THEN 3
    ELSE IF size <= 100 THEN 4
    ELSE IF size <= 200 THEN 5
    ELSE IF size <= 500 THEN 6
    ELSE IF size <= 1000 THEN 7
    ELSE IF size <= 2000 THEN 8
    ELSE 9

\* the type the if/elif chain of _generate_activity_patterns gives a message
\* (the sample messages match the same keywords in both keyword tables)
ContributionType(m) ==
    CASE m.category = "feature" -> "features"
      [] m.category = "fix" -> "fixes"
      [] m.category = "refactor" -> "refactoring"
      [] m.category = "docs" -> "documentation"
      [] m.category = "test" -> "testing"
      [] OTHER -> "other"

ContributionTypes ==
    {"features", "fixes", "refactoring", "documentation", "testing", "other"}

\* the commits whose date fromisoformat accepts
DatedCommits(commits) == SelectSeq(commits, LAMBDA c : c.date.kind = "value")

\* fault: the size is appended before the date is parsed, for every commit
SizedCommitsAll(commits) == commits

\* the commits whose size reaches commit_sizes: the date parsed and the
\* addition of 'additions' and 'deletions' did not raise inside the try
SizedCommits(commits) ==
    SelectSeq(DatedCommits(commits),
              LAMBDA c : c.additions.kind # "null" /\ c.deletions.kind # "null")

\* the list [0] * n after one increment per key
Histogram(keys, n) ==
    [k \in 0..(n - 1) |-> Cardinality({i \in 1..Len(keys) : keys[i] = k})]

\* _generate_activity_patterns
GenerateActivityPatterns(g) ==
    LET commits == CommitsOf(g)
        repos == ReposOf(g)
        dated == DatedCommits(commits)
        sized == SizedCommits(commits)
        languages == {repos[i].language : i \in 1..Len(repos)} \ {""}
    IN  [hourly_distribution |->
             Histogram([i \in 1..Len(dated) |-> dated[i].date.hour], 24),
         daily_distribution |->
             Histogram([i \in 1..Len(dated) |-> dated[i].date.day % 7], 7),
         monthly_distribution |->
             Histogram([i \in 1..Len(dated) |-> MonthOf(dated[i].date)], 12),
         commit_size_distribution |->
             Histogram([i \in 1..Len(sized) |-> SizeBucket(CommitSize(sized[i]))],
                       10),
         language_distribution |->
             [l \in languages |->
                 Cardinality({i \in 1..Len(repos) : repos[i].language = l})],
         contribution_types |->
             [t \in ContributionTypes |->
                 Cardinality({i \in 1..Len(commits) :
                                 ContributionType(commits[i].message) = t})]]

\* no activity patterns: the call did not get that far
NoPatterns == GenerateActivityPatterns([commits |-> NoSection,
                                        repositories |-> NoSection])

\* one run of analyze_profile on github_data at wall-clock day now: the
\* verdict with its activity patterns, or the exception that left the call
Outcome(now, verdict, error) ==
    [now |-> now, verdict |-> verdict, error |-> error,
     activity_patterns |-> NoPatterns]

AnalyzeRaw(e, g, o, now) ==
    LET x == ExtractFeaturesRaw(g, now)
        p == Predict(e, x.value, o)
    IN  IF x.raised THEN Outcome(now, Failed, ExtractionError(g))
        ELSE IF p.raised THEN Outcome(now, Failed, "Exception")
        ELSE IF AssemblyError(g) # "none"
        THEN Outcome(now, Failed, AssemblyError(g))
        ELSE [Outcome(now,
                      MakeVerdict(CountsOf(g), x.value, p.value,
                                  GenerateRedFlags(e, x.value, o)),
                      "none")
                 EXCEPT !.activity_patterns = GenerateActivityPatterns(g)]

(***************************************************************************)
(* The snapshots of the record-level runs                                  *)
(***************************************************************************)
\* [x] * n
RECURSIVE Repeat(_, _)
Repeat(x, n) == IF n = 0 THEN <<>> ELSE <<x>> \o Repeat(x, n - 1)

\* "Add new feature"; "fix bug."; "   "; "Update the documentation"
SampleMessages ==
    {Message(FALSE, TRUE, TRUE, FALSE, TRUE, "feature"),
     Message(FALSE, FALSE, FALSE, TRUE, FALSE, "fix"),
     Message(TRUE, FALSE, FALSE, FALSE, FALSE, "none"),
     Message(FALSE, TRUE, TRUE, FALSE, FALSE, "docs"),
     MissingMessage, NullMessage}

\* Tuesday 10:00, Saturday 23:00, Sunday of the next week 06:00 (no offset),
\* Tuesday two weeks on 03:00, and the dates that do not parse
SampleDates ==
    {Timestamp(1, 10, TRUE), Timestamp(5, 23, TRUE), Timestamp(13, 6, FALSE),
     Timestamp(15, 3, TRUE), Unparsable, NullDate, MissingDate}

\* a well-formed commit, as GitHubService builds it
BaseCommit ==
    [date |-> Timestamp(1, 10, TRUE),
     message |-> Message(FALSE, TRUE, TRUE, FALSE, TRUE, "feature"),
     additions |-> Num(20), deletions |-> Num(5)]

\* commits that differ from it in one field
SampleCommits ==
    {[BaseCommit EXCEPT !.date = d] : d \in SampleDates}
    \cup {[BaseCommit EXCEPT !.message = m] : m \in SampleMessages}
    \cup {[BaseCommit EXCEPT !.additions = a] :
             a \in {Num(0), Num(600), Null, Missing}}
    \cup {[BaseCommit EXCEPT !.deletions = a] : a \in {Num(0), Null, Missing}}

\* a well-formed repository: "my-project", updated on day 100 (no offset)
BaseRepo ==
    [name |-> Name(FALSE, TRUE, TRUE), fork |-> FALSE, language |-> "Python",
     stargazers_count |-> 3, forks_count |-> 1, open_issues_count |-> 2,
     size |-> Num(120), updated_at |-> Timestamp(100, 12, FALSE),
     description |-> TRUE, has_releases |-> TRUE, archived |-> FALSE]

\* repositories that differ from it in one field ("test", "x" and a missing
\* or null name; a null, missing, empty or small size; ...)
SampleRepos ==
    {[BaseRepo EXCEPT !.name = n] :
        n \in {Name(TRUE, FALSE, TRUE), Name(FALSE, FALSE, FALSE),
               MissingName, NullName}}
    \cup {[BaseRepo EXCEPT !.size = k] : k \in {Num(0), Num(5), Null, Missing}}
    \cup {[BaseRepo EXCEPT !.updated_at = d] :
             d \in {Timestamp(390, 12, FALSE), Timestamp(100, 12, TRUE),
                    Unparsable, NullDate, MissingDate}}
    \cup {[BaseRepo EXCEPT !.fork = TRUE, !.language = "", !.description = FALSE],
          [BaseRepo EXCEPT !.stargazers_count = 500, !.forks_count = 200,
                           !.open_issues_count = 90, !.language = "Go"],
          [BaseRepo EXCEPT !.stargazers_count = 0, !.forks_count = 0,
                           !.open_issues_count = 0, !.has_releases = FALSE,
                           !.archived = TRUE],
          BaseRepo}

BaseUser == User(10, 5, 10, 7)

SampleUsers ==
    {BaseUser, NoUser, User(0, 0, 0, 0), User(500, 3, 10, 2), User(4, 0, 25, 7)}

\* a complete snapshot
BaseSnapshot ==
    [username |-> TRUE, account_age_days |-> Num(400), user |-> BaseUser,
     commits |-> Section(<<BaseCommit>>), repositories |-> Section(<<BaseRepo>>)]

\* snapshots with top-level keys missing
SectionSnapshots ==
    {[username |-> n, account_age_days |-> a, user |-> u, commits |-> c,
      repositories |-> r] :
        n \in BOOLEAN, a \in {Num(400), Num(0), Missing}, u \in {BaseUser, NoUser},
        c \in {Section(<<BaseCommit>>), Section(<<>>), NoSection},
        r \in {Section(<<BaseRepo>>), Section(<<>>), NoSection}}

\* snapshots whose commit list mixes two kinds of commit, short and long
CommitSnapshots ==
    {[BaseSnapshot EXCEPT !.commits = Section(Repeat(c1, n[1]) \o Repeat(c2, n[2]))] :
        c1 \in SampleCommits, c2 \in SampleCommits,
        n \in {<<1, 0>>, <<1, 1>>, <<9, 3>>}}

\* snapshots whose repository list mixes two kinds of repository
RepoSnapshots ==
    {[BaseSnapshot EXCEPT !.repositories =
                              Section(Repeat(r1, n[1]) \o Repeat(r2, n[2]))] :
        r1 \in SampleRepos, r2 \in SampleRepos, n \in {<<1, 1>>, <<11, 1>>}}

UserSnapshots ==
    {[BaseSnapshot EXCEPT !.user = u, !.account_age_days = a] :
        u \in SampleUsers, a \in {Num(0), Num(10), Num(400)}}

\* one commit at each hour of the day, beside a daytime commit
HourSnapshots ==
    {[BaseSnapshot EXCEPT !.commits =
                              Section(<<[BaseCommit EXCEPT
                                            !.date = Timestamp(2, h, TRUE)],
                                        BaseCommit>>)] : h \in 0..23}

\* twelve commits at twelve hours of twelve days
SpreadSnapshot ==
    [BaseSnapshot EXCEPT !.commits =
        Section([i \in 1..12 |->
                    [BaseCommit EXCEPT !.date = Timestamp(3 * i, 2 * i - 1, TRUE)]])]

RawSnapshots ==
    SectionSnapshots \cup CommitSnapshots \cup RepoSnapshots \cup UserSnapshots
    \cup HourSnapshots \cup {SpreadSnapshot}

\* the wall clock at the time of a call, in days on the scale of the
\* timestamps
Clock == {200, 400}

\* analyze_profile is run this many times on a snapshot
MaxRuns == 2

(***************************************************************************)
(* Record-level runs: an engine without classifier artifacts analyses one  *)
(* snapshot MaxRuns times, at wall-clock times of the environment's        *)
(* choosing.                                                               *)
(***************************************************************************)
RawReceived(g) == [pc |-> "received", snap |-> g, runs |-> <<>>]

RawIdle == [pc |-> "idle", snap |-> None, runs |-> <<>>]

\* analyze_profile, the whole call, reading datetime.now() as it runs
AnalyzeProfileRaw(w) ==
    /\ req[w].pc \in {"received", "returned"}
    /\ Len(req[w].runs) < MaxRuns
    /\ \E now \in Clock :
          req' = [req EXCEPT
                     ![w].pc = "returned",
                     ![w].runs = Append(@, AnalyzeRaw(engine, req[w].snap,
                                                      NoOracle, now))]
    /\ engine' = EngineAfterAnalysis(engine, NoOracle)

InitRaw ==
    /\ engine = LoadTrainedModel([model_file |-> FALSE, scaler_file |-> FALSE,
                                  metadata_file |-> FALSE, raises |-> "none"])
    /\ \E g \in RawSnapshots :
           req = [w \in Workers |-> IF w = 1 THEN RawReceived(g) ELSE RawIdle]

NextRaw == \E w \in Workers : AnalyzeProfileRaw(w)

SpecRaw == InitRaw /\ [][NextRaw]_vars

\* the runs of analyze_profile completed so far
Runs == req[1].runs

\* the snapshot they ran on
RawSnap == req[1].snap

\* run i of analyze_profile returned a verdict
RunOk(i) == Runs[i].verdict.status = "ok"

(***************************************************************************)
(* C11  A snapshot that lacks a required top-level section (no user        *)
(* object, no commit list, no repository list) makes analyze_profile fail  *)
(* with an error labelled invalid_snapshot, never a verdict computed from  *)
(* zeroed account data; and nothing else about the input fails the whole   *)
(* analysis.                                                               *)
(***************************************************************************)
LacksSection(g) ==
    \/ g.user.kind = "absent"
    \/ g.commits.kind = "absent"
    \/ g.repositories.kind = "absent"

\* C11 as claimed
C11_InvalidSnapshotLabelled ==
    \A i \in 1..Len(Runs) :
        /\ LacksSection(RawSnap) =>
               (~RunOk(i) /\ Runs[i].error = "invalid_snapshot")
        /\ ~RunOk(i) => LacksSection(RawSnap)

(***************************************************************************)
(* C12  One commit or repository record with a malformed or missing field  *)
(* (unparsable or null date, null message, null additions or deletions,    *)
(* null name or size) never makes _extract_features or analyze_profile     *)
(* raise: in a snapshot that has its username, every run returns a         *)
(* verdict.                                                                *)
(***************************************************************************)
\* C12 as claimed
C12_MalformedRecordSkipped ==
    \A i \in 1..Len(Runs) : RawSnap.username => RunOk(i)

(***************************************************************************)
(* C13  Determinism: two runs of analyze_profile on the same snapshot, at  *)
(* any two wall-clock times and in either order, return the same feature   *)
(* vector and the same red-flag list.                                      *)
(***************************************************************************)
\* C13 as claimed
C13_Deterministic ==
    \A i, j \in 1..Len(Runs) :
        (RunOk(i) /\ RunOk(j)) =>
            /\ Runs[i].verdict.features = Runs[j].verdict.features
            /\ Runs[i].verdict.red_flags = Runs[j].verdict.red_flags

(***************************************************************************)
(* C14  Every value of the vector _extract_features returns lies within    *)
(* its bound: the ratio and score signals and the two normalised variances *)
(* are in [0,1], commit_frequency <= 100, follower_repo_ratio <= 10,       *)
(* follower_following_ratio <= 10, language_diversity <= 15,               *)
(* avg_stars_per_repo <= 100, avg_forks_per_repo <= 50,                    *)
(* issue_engagement <= 20, and all are >= 0.                               *)
(***************************************************************************)
UnitSignals ==
    {"weekend_commit_ratio", "night_commit_ratio", "original_repo_ratio",
     "repo_activity_ratio", "activity_consistency", "commit_msg_quality",
     "timing_entropy", "repo_naming_quality", "contribution_diversity",
     "profile_completeness", "collaboration_score", "code_quality_score",
     "burst_activity_score", "maintenance_score", "account_maturity",
     "commit_size_variance", "repo_size_variance"}

\* the documented upper bound of each signal
UpperBound(key) ==
    IF key \in UnitSignals THEN 1
    ELSE IF key = "commit_frequency" THEN 100
    ELSE IF key \in {"follower_repo_ratio", "follower_following_ratio"} THEN 10
    ELSE IF key = "language_diversity" THEN 15
    ELSE IF key = "avg_stars_per_repo" THEN 100
    ELSE IF key = "avg_forks_per_repo" THEN 50
    ELSE 20

WithinBounds(f) ==
    \A key \in DOMAIN f :
        RLe(Whole(0), f[key]) /\ RLe(f[key], Whole(UpperBound(key)))

C14_SignalsWithinBounds ==
    \A i \in 1..Len(Runs) :
        RunOk(i) =>
            /\ DOMAIN Runs[i].verdict.features = ComprehensiveFeaturesFields
            /\ WithinBounds(Runs[i].verdict.features)

\* a run on twelve commits whose size variance lies above 1 before the cap
\* of the returned dict, and is returned as 1
C14_Witness ==
    \E i \in 1..Len(Runs) :
        /\ RunOk(i)
        /\ Len(CommitsOf(RawSnap)) = 12
        /\ RGt(NormalisedVariance(CommitSizes(CommitsOf(RawSnap))), Whole(1))
        /\ Runs[i].verdict.features.commit_size_variance = Whole(1)
        /\ WithinBounds(Runs[i].verdict.features)

(***************************************************************************)
(* C20  A commit counts towards night_commit_ratio exactly when its hour   *)
(* lies in the half-open window [22:00, 06:00), that is in                 *)
(* {22, 23, 0, 1, 2, 3, 4, 5}; a commit at 06:xx is not a night commit.    *)
(***************************************************************************)
NightWindow == {22, 23, 0, 1, 2, 3, 4, 5}

\* C20 as claimed
C20_NightWindowHalfOpen ==
    \A i \in 1..Len(Runs) :
        RunOk(i) =>
            Runs[i].verdict.features.night_commit_ratio =
                Rat(CountIf(CommitsOf(RawSnap),
                            LAMBDA c : c.date.kind = "value"
                                       /\ c.date.hour \in NightWindow),
                    Max(1, Len(CommitsOf(RawSnap))))

(***************************************************************************)
(* The web service: POST /analyze/{username} (main.py) over                *)
(* GitHubService.get_profile_data (services/github_service.py).            *)
(***************************************************************************)
\* what GitHub holds for a username at the time of the request: whether the
\* user exists, whether the API answers (no outage, no rate limit), and the
\* profile it serves
GitHubState(exists, up, profile) ==
    [exists |-> exists, up |-> up, profile |-> profile]

\* a repository for which the API reports no updated_at (line 121 stores None)
RepoWithoutUpdate == [BaseRepo EXCEPT !.updated_at = NullDate]

\* the profiles GitHub serves: timestamps carry a UTC offset or not,
\* depending on the client library's version
RealProfiles ==
    {BaseSnapshot,
     [BaseSnapshot EXCEPT !.repositories = Section(<<RepoWithoutUpdate>>)],
     [BaseSnapshot EXCEPT
         !.commits = Section(Repeat([BaseCommit EXCEPT
                                        !.date = Timestamp(5, 23, TRUE)], 12)),
         !.repositories =
             Section(<<[BaseRepo EXCEPT !.fork = TRUE,
                                        !.updated_at = Timestamp(100, 12, TRUE)]>>)]}

GitHubStates ==
    {GitHubState(TRUE, up, g) : up \in BOOLEAN, g \in RealProfiles}
    \cup {GitHubState(FALSE, up, BaseSnapshot) : up \in BOOLEAN}

\* self.github.get_user(username) raises (unknown user, outage, rate limit)
FetchFails(gh) == ~gh.exists \/ ~gh.up

\* the draws of random.randint in _get_mock_profile_data: the numbers of
\* commits and of repositories, and how many days back the commits lie
MockDraws ==
    {[commits |-> 20, repositories |-> 8, days_back |-> 1],
     [commits |-> 24, repositories |-> 9, days_back |-> 3]}

\* _get_mock_profile_data at wall-clock day now: every field is filled in,
\* the timestamps carry no offset
MockProfileData(now, draw) ==
    [username |-> TRUE, account_age_days |-> Num(365),
     user |-> User(10, 5, 5, 7),
     commits |->
         Section(Repeat([BaseCommit EXCEPT
                            !.date = Timestamp(now - draw.days_back, 12, FALSE)],
                        draw.commits)),
     repositories |->
         Section(Repeat([BaseRepo EXCEPT
                            !.updated_at = Timestamp(now - 1, 12, FALSE)],
                        draw.repositories))]

\* get_profile_data: the profile as fetched, or mock data when anything in
\* the try block raises
GetProfileData(gh, now, draw) ==
    IF FetchFails(gh)
    THEN Return([data_source |-> "mock_data", data |-> MockProfileData(now, draw)])
    ELSE Return([data_source |-> "real_github_api", data |-> gh.profile])

\* the HTTP response: 200 with the ProfileAnalysis, or HTTPException(400)
Response(status, source, outcome) ==
    [status |-> status, data_source |-> source, outcome |-> outcome]

\* the route analyze_profile of main.py, as a function of its inputs
AnalyzeRoute(e, gh, o, now, draw) ==
    LET fetched == GetProfileData(gh, now, draw)
        outcome == AnalyzeRaw(e, fetched.value.data, o, now)
    IN  IF fetched.raised THEN Response(400, "none", Outcome(now, Failed, "Exception"))
        ELSE IF outcome.verdict.status = "ok"
        THEN Response(200, fetched.value.data_source, outcome)
        ELSE Response(400, fetched.value.data_source, outcome)

NoRequest == [pc |-> "idle", github |-> None, response |-> None]

\* a connection nobody uses
Closed == [pc |-> "closed", github |-> None, response |-> None]

\* a client posts /analyze/{username}, for the first time or again
PostAnalyze(w) ==
    /\ req[w].pc \in {"idle", "responded"}
    /\ \E gh \in GitHubStates :
           req' = [req EXCEPT ![w] = [pc |-> "requested", github |-> gh,
                                      response |-> None]]
    /\ UNCHANGED engine

\* the route runs: fetch, analysis, response
ServeAnalyze(w) ==
    /\ req[w].pc = "requested"
    /\ \E now \in Clock, draw \in MockDraws,
          o \in OraclesFor(engine, EngineOracles) :
           req' = [req EXCEPT
                      ![w].pc = "responded",
                      ![w].response = AnalyzeRoute(engine, req[w].github, o,
                                                   now, draw)]
    /\ engine' = EngineAfterAnalysis(engine, NoOracle)

\* The route is a coroutine that never yields (the GitHub client blocks), so
\* the event loop serves one request at a time: one client.
InitService ==
    /\ engine \in Engines
    /\ req = [w \in Workers |-> IF w = 1 THEN NoRequest ELSE Closed]

NextService == \E w \in Workers : PostAnalyze(w) \/ ServeAnalyze(w)

SpecService == InitService /\ [][NextService]_vars

Responded(w) == req[w].pc = "responded"

(***************************************************************************)
(* C15  Analysing a username for which the GitHub fetch fails (a user that *)
(* does not exist) ends in an error response with HTTP status 400 from     *)
(* POST /analyze/{username}, never in a 200 verdict for that username.     *)
(***************************************************************************)
\* C15 as claimed
C15_FetchFailureIs400 ==
    \A w \in Workers :
        (Responded(w) /\ ~req[w].github.exists) => req[w].response.status = 400

(***************************************************************************)
(* EnhancedRedFlagDetector.generate_enhanced_red_flags, check by check     *)
(***************************************************************************)
\* _analyze_temporal_patterns
AnalyzeTemporalPatterns(f) ==
    WeekendActivityFlags(f) \o NightActivityFlags(f)
    \o AppendIf(<<>>, RLt(FeatGet(f, "timing_entropy", Dec(50)), Dec(30)),
                Flag("low_timing_entropy", "medium"))

\* _analyze_repository_quality, "Original content analysis": no medium tier
OriginalContentFlags(f) ==
    LET r == FeatGet(f, "original_repo_ratio", Whole(0))
    IN  IF RLt(r, Thresholds.original_ratio.critical)
        THEN <<Flag("minimal_original_content", "critical")>>
        ELSE IF RLt(r, Thresholds.original_ratio.high)
        THEN <<Flag("low_original_content", "high")>>
        ELSE <<>>

AnalyzeRepositoryQuality(f) ==
    LET r1 == AppendIf(OriginalContentFlags(f),
                       RLt(FeatGet(f, "repo_naming_quality", Dec(50)), Dec(30)),
                       Flag("poor_repo_naming", "medium"))
    IN  AppendIf(r1, RLt(FeatGet(f, "maintenance_score", Dec(50)), Dec(20)),
                 Flag("poor_maintenance", "medium"))

\* _analyze_social_behavior
AnalyzeSocialBehavior(f) ==
    LET r == FeatGet(f, "follower_repo_ratio", Whole(1))
        r1 == IF RLt(r, Thresholds.follower_ratio.low)
              THEN <<Flag("very_low_engagement", "medium")>>
              ELSE IF RGt(r, Thresholds.follower_ratio.extreme)
              THEN <<Flag("extreme_social_engagement", "high")>>
              ELSE <<>>
    IN  AppendIf(r1, RLt(FeatGet(f, "profile_completeness", Dec(50)), Dec(30)),
                 Flag("incomplete_profile", "low"))

\* _analyze_commit_patterns, "Commit frequency analysis"
CommitFrequencyFlags(f) ==
    LET r == FeatGet(f, "commit_frequency", Whole(0))
    IN  IF RGt(r, Thresholds.commit_frequency.extreme)
        THEN <<Flag("extreme_commit_frequency", "critical")>>
        ELSE IF RGt(r, Thresholds.commit_frequency.high)
        THEN <<Flag("high_commit_frequency", "medium")>>
        ELSE IF RLt(r, Thresholds.commit_frequency.low)
        THEN <<Flag("low_commit_frequency", "low")>>
        ELSE <<>>

\* fault: the two tiers of the burst check carry each other's severity
BurstActivityFlagsSwapped(f) ==
    LET r == FeatGet(f, "burst_activity_score", Dec(50))
    IN  IF RLt(r, Thresholds.burst_activity.critical)
        THEN <<Flag("extreme_burst_activity", "medium")>>
        ELSE IF RLt(r, Thresholds.burst_activity.high)
        THEN <<Flag("burst_activity_detected", "critical")>>
        ELSE <<>>

\* _analyze_commit_patterns, "Burst activity patterns"
BurstActivityFlags(f) ==
    LET r == FeatGet(f, "burst_activity_score", Dec(50))
    IN  IF RLt(r, Thresholds.burst_activity.critical)
        THEN <<Flag("extreme_burst_activity", "critical")>>
        ELSE IF RLt(r, Thresholds.burst_activity.high)
        THEN <<Flag("burst_activity_detected", "medium")>>
        ELSE <<>>

AnalyzeCommitPatterns(f) ==
    AppendIf(CommitFrequencyFlags(f),
             RLt(FeatGet(f, "commit_msg_quality", Dec(50)), Dec(30)),
             Flag("poor_commit_messages", "medium"))
    \o BurstActivityFlags(f)

\* ml_prediction: None, or a dict; a key that is missing reads as 0
NoPrediction == [kind |-> "none", suspicious_probability |-> Whole(0),
                 confidence |-> Whole(0)]

EmptyPrediction == [NoPrediction EXCEPT !.kind = "empty"]

MLPrediction(prob, conf) ==
    [kind |-> "dict", suspicious_probability |-> prob, confidence |-> conf]

\* fault: the second test is an "if", not an "elif"
AnalyzeMLInsightsBothTests(ml, f) ==
    LET r1 == AppendIf(<<>>, RGt(ml.suspicious_probability, Dec(80))
                             /\ RGt(ml.confidence, Dec(90)),
                       Flag("ml_high_confidence_suspicious", "critical"))
    IN  AppendIf(r1, RGt(ml.suspicious_probability, Dec(70)),
                 Flag("ml_suspicious_patterns", "high"))

\* _analyze_ml_insights
AnalyzeMLInsights(ml, f) ==
    IF RGt(ml.suspicious_probability, Dec(80)) /\ RGt(ml.confidence, Dec(90))
    THEN <<Flag("ml_high_confidence_suspicious", "critical")>>
    ELSE IF RGt(ml.suspicious_probability, Dec(70))
    THEN <<Flag("ml_suspicious_patterns", "high")>>
    ELSE <<>>

\* fault: the call returns once the ML insights have produced a flag
GenerateEnhancedRedFlagsEarlyExit(f, s, ml) ==
    LET r == AnalyzeTemporalPatterns(f) \o AnalyzeRepositoryQuality(f)
             \o AnalyzeSocialBehavior(f) \o AnalyzeCommitPatterns(f)
             \o AnalyzeAccountMaturity(f, s)
    IN  IF ml.kind = "dict" /\ AnalyzeMLInsights(ml, f) # <<>>
        THEN r \o AnalyzeMLInsights(ml, f)
        ELSE r \o AnalyzeCrossPatterns(f)

\* generate_enhanced_red_flags; "if ml_prediction" is false for None and {}
GenerateEnhancedRedFlags(f, s, ml) ==
    AnalyzeTemporalPatterns(f) \o AnalyzeRepositoryQuality(f)
    \o AnalyzeSocialBehavior(f) \o AnalyzeCommitPatterns(f)
    \o AnalyzeAccountMaturity(f, s)
    \o (IF ml.kind = "dict" THEN AnalyzeMLInsights(ml, f) ELSE <<>>)
    \o AnalyzeCrossPatterns(f)

(***************************************************************************)
(* Detector runs: one call of generate_enhanced_red_flags on a feature     *)
(* vector, a snapshot and an ML prediction.                                *)
(***************************************************************************)
\* the values of the signals the graded checks read, on both sides of every
\* threshold
WeekendGrid == {Whole(0), Dec(45), Dec(55), Dec(65), Dec(85)}

NightGrid == {Whole(0), Dec(35), Dec(45), Dec(55), Dec(75)}

OriginalGrid == {Dec(5), Dec(15), Dec(25), Dec(50)}

BurstGrid == {Dec(10), Dec(30), Dec(50), Dec(70)}

FrequencyGrid == {Whole(3), Whole(50), Whole(150), Whole(250)}

\* a vector as the extractors return it, with the graded signals replaced
DetectorFeatures ==
    {[RawFeatures(BaseSnapshot, 200) EXCEPT
         !.weekend_commit_ratio = w, !.night_commit_ratio = n,
         !.original_repo_ratio = o, !.burst_activity_score = b,
         !.commit_frequency = c] :
        w \in WeekendGrid, n \in NightGrid, o \in OriginalGrid, b \in BurstGrid,
        c \in FrequencyGrid}

MLPredictions ==
    {NoPrediction, EmptyPrediction, MLPrediction(Dec(50), Dec(95))}
    \cup {MLPrediction(pr, c) : pr \in {Dec(70), Dec(75), Dec(85)},
                                c \in {Dec(50), Dec(95)}}

\* rf.id.split('_')[0] for the ids the detector gives its flags
Category(id) ==
    CASE id \in {"extreme_weekend_activity", "extreme_night_activity",
                 "extreme_social_engagement", "extreme_commit_frequency",
                 "extreme_burst_activity"} -> "extreme"
      [] id \in {"high_weekend_activity", "high_night_activity",
                 "high_commit_frequency"} -> "high"
      [] id = "elevated_weekend_activity" -> "elevated"
      [] id \in {"low_timing_entropy", "low_original_content",
                 "low_commit_frequency"} -> "low"
      [] id = "minimal_original_content" -> "minimal"
      [] id \in {"poor_repo_naming", "poor_maintenance",
                 "poor_commit_messages"} -> "poor"
      [] id = "very_low_engagement" -> "very"
      [] id = "incomplete_profile" -> "incomplete"
      [] id = "burst_activity_detected" -> "burst"
      [] id = "new_account_high_activity" -> "new"
      [] id = "maturity_activity_mismatch" -> "maturity"
      [] id \in {"ml_high_confidence_suspicious", "ml_suspicious_patterns"} -> "ml"
      [] id = "combined_temporal_anomaly" -> "combined"
      [] id = "volume_vs_originality_mismatch" -> "volume"
      [] id = "perfect_consistency_anomaly" -> "perfect"

\* len([rf for rf in red_flags if rf.severity == sev])
SeverityCount(flags, sev) ==
    Cardinality({i \in 1..Len(flags) : flags[i].severity = sev})

\* fault: a category is entered with 1 and never incremented
GetRedFlagSummaryNoIncrement(flags) ==
    [total |-> Len(flags),
     critical |-> SeverityCount(flags, "critical"),
     high |-> SeverityCount(flags, "high"),
     medium |-> SeverityCount(flags, "medium"),
     low |-> SeverityCount(flags, "low"),
     categories |-> [c \in {Category(flags[i].id) : i \in 1..Len(flags)} |-> 1]]

\* get_red_flag_summary
GetRedFlagSummary(flags) ==
    [total |-> Len(flags),
     critical |-> SeverityCount(flags, "critical"),
     high |-> SeverityCount(flags, "high"),
     medium |-> SeverityCount(flags, "medium"),
     low |-> SeverityCount(flags, "low"),
     categories |->
         [c \in {Category(flags[i].id) : i \in 1..Len(flags)} |->
             Cardinality({i \in 1..Len(flags) : Category(flags[i].id) = c})]]

DetectorCall(f, ml) ==
    [pc |-> "called", features |-> f, snap |-> [account_age_days |-> 400],
     ml_prediction |-> ml, red_flags |-> None,
     summary |-> GetRedFlagSummary(<<>>)]

\* generate_enhanced_red_flags, the whole call
GenerateEnhancedRedFlagsCall(w) ==
    /\ req[w].pc = "called"
    /\ req' = [req EXCEPT
                  ![w].pc = "flagged",
                  ![w].red_flags =
                      GenerateEnhancedRedFlags(req[w].features, req[w].snap,
                                               req[w].ml_prediction)]
    /\ UNCHANGED engine

\* get_red_flag_summary on the list the detector returned
GetRedFlagSummaryCall(w) ==
    /\ req[w].pc = "flagged"
    /\ req' = [req EXCEPT ![w].pc = "summarised",
                          ![w].summary = GetRedFlagSummary(req[w].red_flags)]
    /\ UNCHANGED engine

InitDetector ==
    /\ engine = NewEngine
    /\ \E f \in DetectorFeatures, ml \in MLPredictions :
           req = [w \in Workers |-> IF w = 1 THEN DetectorCall(f, ml) ELSE Closed]

NextDetector ==
    \E w \in Workers : GenerateEnhancedRedFlagsCall(w) \/ GetRedFlagSummaryCall(w)

SpecDetector == InitDetector /\ [][NextDetector]_vars

\* the call has returned its list
Flagged == req[1].pc = "flagged"

\* the flags of a list whose id is one of ids
FlagsOf(flags, ids) == SelectSeq(flags, LAMBDA x : x.id \in ids)

(***************************************************************************)
(* The graded single-signal checks                                         *)
(***************************************************************************)
\* the signal each check reads, the flags it can raise, the values tried, and
\* whether a lower value is the more extreme one
SignalChecks ==
    {[key |-> "weekend_commit_ratio", grid |-> WeekendGrid, inverted |-> FALSE,
      ids |-> {"extreme_weekend_activity", "high_weekend_activity",
               "elevated_weekend_activity"}],
     [key |-> "night_commit_ratio", grid |-> NightGrid, inverted |-> FALSE,
      ids |-> {"extreme_night_activity", "high_night_activity"}],
     [key |-> "original_repo_ratio", grid |-> OriginalGrid, inverted |-> TRUE,
      ids |-> {"minimal_original_content", "low_original_content"}],
     [key |-> "burst_activity_score", grid |-> BurstGrid, inverted |-> TRUE,
      ids |-> {"extreme_burst_activity", "burst_activity_detected"}],
     [key |-> "commit_frequency", inverted |-> FALSE,
      grid |-> {c \in FrequencyGrid :
                    ~RLt(c, Thresholds.commit_frequency.low)},
      ids |-> {"extreme_commit_frequency", "high_commit_frequency"}]}

\* value v of a check's signal is at least as extreme as value u
AsExtreme(check, v, u) == IF check.inverted THEN RLe(v, u) ELSE RLe(u, v)

\* the severity a check gives in a returned list: 0 when it raised no flag
CheckSeverity(flags, check) == TopRank(FlagsOf(flags, check.ids))

\* the list the detector returns for the call's inputs with one signal replaced
FlagsWith(call, key, v) ==
    GenerateEnhancedRedFlags([call.features EXCEPT ![key] = v], call.snap,
                             call.ml_prediction)

\* C16: in the list generate_enhanced_red_flags returns, each graded
\* single-signal check (weekend ratio, night ratio, original ratio and burst
\* score read downwards, commit frequency from its low threshold upwards)
\* gives a value that is at least as extreme a severity that is at least as
\* high, in the order no flag < low < medium < high < critical.
C16_MonotonicSeverity ==
    Flagged =>
        \A check \in SignalChecks :
            req[1].features[check.key] \in check.grid =>
                \A v \in check.grid :
                    AsExtreme(check, v, req[1].features[check.key]) =>
                        CheckSeverity(FlagsWith(req[1], check.key, v), check)
                            >= CheckSeverity(req[1].red_flags, check)

\* a returned list in which the burst check gave medium and the commit
\* frequency check gave medium, both with a more extreme value left to try
C16_Witness ==
    /\ Flagged
    /\ HasFlag(req[1].red_flags, "burst_activity_detected", "medium")
    /\ HasFlag(req[1].red_flags, "high_commit_frequency", "medium")
    /\ HasFlag(req[1].red_flags, "low_original_content", "high")
    /\ HasFlag(req[1].red_flags, "elevated_weekend_activity", "medium")
    /\ HasFlag(req[1].red_flags, "high_night_activity", "high")

\* the flags the ML insights put in a returned list
MLFlagIds == {"ml_high_confidence_suspicious", "ml_suspicious_patterns"}

MLFlags == FlagsOf(req[1].red_flags, MLFlagIds)

\* C17: whenever weekend_commit_ratio > 0.5 and night_commit_ratio > 0.4 the
\* list generate_enhanced_red_flags returns contains the critical flag
\* combined_temporal_anomaly, whatever the other checks raised.
C17_CombinedTemporalCritical ==
    Flagged =>
        (RGt(req[1].features.weekend_commit_ratio, Dec(50))
         /\ RGt(req[1].features.night_commit_ratio, Dec(40))
            => HasFlag(req[1].red_flags, "combined_temporal_anomaly", "critical"))

\* both ratios past the combined bars while the weekend check alone gave only
\* medium and the night check gave nothing, and the ML insights and the
\* originality check above it had already raised critical flags
C17_Witness ==
    /\ Flagged
    /\ req[1].features.weekend_commit_ratio = Dec(55)
    /\ req[1].features.night_commit_ratio = Dec(45)
    /\ HasFlag(req[1].red_flags, "elevated_weekend_activity", "medium")
    /\ CheckSeverity(req[1].red_flags,
                     CHOOSE c \in SignalChecks : c.key = "night_commit_ratio") = 0
    /\ HasFlag(req[1].red_flags, "ml_high_confidence_suspicious", "critical")
    /\ HasFlag(req[1].red_flags, "minimal_original_content", "critical")
    /\ HasFlag(req[1].red_flags, "combined_temporal_anomaly", "critical")

\* C18, as stated: an ML flag is added only when the suspicious probability
\* is above 0.7 and the confidence is above 0.9; with probability <= 0.7 no
\* ML flag is added; with probability > 0.8 and confidence > 0.9 the flag is
\* critical; at most one ML flag is added per call.
C18_MLFlagNeedsBothBars ==
    Flagged =>
        LET ml == req[1].ml_prediction
        IN  /\ MLFlags # <<>> => /\ RGt(ml.suspicious_probability, Dec(70))
                                 /\ RGt(ml.confidence, Dec(90))
            /\ RLe(ml.suspicious_probability, Dec(70)) => MLFlags = <<>>
            /\ ml.kind = "dict" /\ RGt(ml.suspicious_probability, Dec(80))
               /\ RGt(ml.confidence, Dec(90))
                  => MLFlags = <<Flag("ml_high_confidence_suspicious", "critical")>>
            /\ Len(MLFlags) <= 1

\* C18, amended: an ML flag is added exactly when a non-empty prediction is
\* given whose suspicious probability is above 0.7, whatever the confidence;
\* it is critical when the probability is above 0.8 and the confidence above
\* 0.9, and high otherwise; at most one ML flag is added per call.
C18_MLFlagOnProbability ==
    Flagged =>
        LET ml == req[1].ml_prediction
            certain == /\ RGt(ml.suspicious_probability, Dec(80))
                       /\ RGt(ml.confidence, Dec(90))
        IN  /\ MLFlags # <<>> <=> /\ ml.kind = "dict"
                                  /\ RGt(ml.suspicious_probability, Dec(70))
            /\ MLFlags # <<>> =>
                   MLFlags = IF certain
                             THEN <<Flag("ml_high_confidence_suspicious", "critical")>>
                             ELSE <<Flag("ml_suspicious_patterns", "high")>>
            /\ Len(MLFlags) <= 1

\* a prediction with probability 0.75 and confidence 0.5: one ML flag, high
C18_Witness ==
    /\ Flagged
    /\ req[1].ml_prediction = MLPrediction(Dec(75), Dec(50))
    /\ MLFlags = <<Flag("ml_suspicious_patterns", "high")>>

(***************************************************************************)
(* The verdict of a model-backed prediction                                *)
(***************************************************************************)
\* the request was answered from the classifier's probability pair
ModelBacked(w) ==
    /\ Returned(w)
    /\ UsesModel(engine)
    /\ req[w].oracle.kind = "proba"
    /\ req[w].verdict.status = "ok"

\* n is an integer nearest to k/10, a tie counting for either neighbour
NearestToTenth(n, k) == 10 * n - 5 <= k /\ k <= 10 * n + 5

\* C19: in model-backed mode the score is the authentic-class probability
\* times 100 rounded to the nearest integer, and the confidence is the
\* winning class probability times 100 (as the integer field holds it: less
\* than one away), for every probability pair the classifier returns.
C19_ScoreRoundedToNearest ==
    \A w \in Workers :
        ModelBacked(w) =>
            LET proba == Proba(req[w].oracle)
                winning == Max(proba[1], proba[2])
            IN  /\ NearestToTenth(req[w].verdict.authenticity_score, proba[2])
                /\ 10 * req[w].verdict.confidence - 10 < winning
                /\ winning < 10 * req[w].verdict.confidence + 10

(***************************************************************************)
(* Unparsable commit timestamps in the temporal ratios                     *)
(***************************************************************************)
\* a commit whose 'date' is a string that fromisoformat rejects
UnparsableCommit == [BaseCommit EXCEPT !.date = Unparsable]

\* the snapshot with one more commit
WithCommit(g, c) == [g EXCEPT !.commits = Section(CommitsOf(g) \o <<c>>)]

\* C21 as claimed: adding a commit whose timestamp cannot be parsed to a
\* snapshot leaves weekend_commit_ratio and night_commit_ratio as
\* _extract_features computes them unchanged.
C21_UnparsableCommitExcluded ==
    \A i \in 1..Len(Runs) :
        RunOk(i) =>
            LET more == RawFeatures(WithCommit(RawSnap, UnparsableCommit),
                                    Runs[i].now)
            IN  /\ more.weekend_commit_ratio
                       = Runs[i].verdict.features.weekend_commit_ratio
                /\ more.night_commit_ratio
                       = Runs[i].verdict.features.night_commit_ratio

(***************************************************************************)
(* The threshold table against the severities of the detector              *)
(***************************************************************************)
\* the check of SignalChecks that reads signal key
CheckOf(key) == CHOOSE c \in SignalChecks : c.key = key

\* the table's tiers of a signal: the value is beyond the critical threshold
\* (rank 4), beyond the high one only (3), beyond the medium one only (2),
\* or beyond none (0); a tier the table does not give is FALSE
TableTier(key, v) ==
    LET t == Thresholds
    IN  CASE key = "weekend_commit_ratio" ->
                 IF RGt(v, t.weekend_commits.critical) THEN 4
                 ELSE IF RGt(v, t.weekend_commits.high) THEN 3
                 ELSE IF RGt(v, t.weekend_commits.medium) THEN 2 ELSE 0
          [] key = "night_commit_ratio" ->
                 IF RGt(v, t.night_commits.critical) THEN 4
                 ELSE IF RGt(v, t.night_commits.high) THEN 3
                 ELSE IF RGt(v, t.night_commits.medium) THEN 2 ELSE 0
          [] key = "original_repo_ratio" ->
                 IF RLt(v, t.original_ratio.critical) THEN 4
                 ELSE IF RLt(v, t.original_ratio.high) THEN 3
                 ELSE IF RLt(v, t.original_ratio.medium) THEN 2 ELSE 0
          [] key = "commit_frequency" ->
                 IF RGt(v, t.commit_frequency.extreme) THEN 4
                 ELSE IF RGt(v, t.commit_frequency.high) THEN 3 ELSE 0
          [] key = "burst_activity_score" ->
                 IF RLt(v, t.burst_activity.critical) THEN 4
                 ELSE IF RLt(v, t.burst_activity.high) THEN 3 ELSE 0

\* the signals to which the table gives a medium threshold that the claim
\* names
MediumSignals ==
    {"weekend_commit_ratio", "night_commit_ratio", "original_repo_ratio"}

\* C22 as claimed: for every signal of the threshold table the flag
\* generate_enhanced_red_flags raises is critical when the value is beyond
\* the critical threshold and high when it is beyond the high threshold but
\* not the critical one.
C22_UpperTiersAtTableSeverity ==
    Flagged =>
        \A check \in SignalChecks :
            LET tier == TableTier(check.key, req[1].features[check.key])
            IN  tier >= 3 => CheckSeverity(req[1].red_flags, check) = tier

\* C23 as claimed: for weekend_commit_ratio, night_commit_ratio and
\* original_repo_ratio generate_enhanced_red_flags raises a medium flag when
\* the value is beyond the medium threshold but not the high one, and no
\* flag for the signal when it is not beyond the medium threshold.
C23_MediumTierAtTableSeverity ==
    Flagged =>
        \A key \in MediumSignals :
            LET tier == TableTier(key, req[1].features[key])
            IN  tier <= 2 => CheckSeverity(req[1].red_flags, CheckOf(key)) = tier

(***************************************************************************)
(* services/rate_limiter.py: the RateLimiter object, its file and the      *)
(* wall clock.  Times are time.time() in whole seconds.                    *)
(***************************************************************************)
\* the window of the hourly check and the period of the daily reset
Hour == 3600

Day == 86400

\* MAX_REQUESTS_PER_HOUR and MAX_REQUESTS_PER_DAY: the defaults, and a
\* deployment that sets them low
LimitConfigs ==
    {[max_requests_per_hour |-> 50, max_requests_per_day |-> 200],
     [max_requests_per_hour |-> 5, max_requests_per_day |-> 10]}

\* the dict _load_rate_data returns when there is no readable file
FreshRateData(now) == [requests |-> <<>>, daily_count |-> 0, last_reset |-> now]

NoFile == [exists |-> FALSE, data |-> FreshRateData(0)]

\* _load_rate_data at time now: the file's dict with the requests older than
\* 24 hours dropped, or the fresh dict
LoadRateData(file, now) ==
    IF file.exists
    THEN [file.data EXCEPT
             !.requests = SelectSeq(@, LAMBDA r : now - r.timestamp < Day)]
    ELSE FreshRateData(now)

\* RateLimiter.__init__ at time now, with the log of every record_request
\* made so far (kept for the properties, the program has no such field)
Limiter(config, file, now, log) ==
    [max_requests_per_hour |-> config.max_requests_per_hour,
     max_requests_per_day |-> config.max_requests_per_day,
     rate_data |-> LoadRateData(file, now),
     file |-> file, now |-> now, log |-> log]

\* _reset_daily_count_if_needed
ResetDailyCountIfNeeded(rate_data, now) ==
    IF now - rate_data.last_reset >= Day THEN FreshRateData(now) ELSE rate_data

\* sum(req['api_calls'] for req in requests)
RECURSIVE ApiCalls(_)
ApiCalls(requests) ==
    IF requests = <<>> THEN 0
    ELSE Head(requests).api_calls + ApiCalls(Tail(requests))

\* the requests can_make_request counts at time now
HourlyRequests(requests, now) ==
    SelectSeq(requests, LAMBDA r : now - r.timestamp < Hour)

\* the value can_make_request returns on rate_data (after the reset)
WithinLimits(l, rate_data, n) ==
    /\ ApiCalls(HourlyRequests(rate_data.requests, l.now)) + n
           <= l.max_requests_per_hour
    /\ rate_data.daily_count + n <= l.max_requests_per_day

\* record_request: the list, the count and the file
RecordedLimiter(l, n) ==
    LET entry == [timestamp |-> l.now, api_calls |-> n]
        data == [l.rate_data EXCEPT !.requests = Append(@, entry),
                                    !.daily_count = @ + n]
    IN  [l EXCEPT !.rate_data = data,
                  !.file = [exists |-> TRUE, data |-> data],
                  !.log = Append(@, entry)]

\* the numbers of API calls a caller asks for
CallCounts == {3, 25, 50}

\* the instants at which the operations run: within an hour of the start,
\* an hour after it, and around the end of the first 24 hours
Instants == {0, 1800, 3600, 84600, 86400, 88200}

\* record_request is called at most this many times
MaxRecords == 3

\* a caller of the limiter: idle, or holding a True of can_make_request(n)
Caller(pc, n) == [pc |-> pc, n |-> n]

\* can_make_request(n)
CanMakeRequest(w) ==
    /\ req[w].pc \in {"idle", "refused"}
    /\ \E n \in CallCounts :
           LET data == ResetDailyCountIfNeeded(engine.rate_data, engine.now)
           IN  /\ engine' = [engine EXCEPT !.rate_data = data]
               /\ req' = [req EXCEPT
                             ![w] = IF WithinLimits(engine, data, n)
                                    THEN Caller("allowed", n)
                                    ELSE Caller("refused", n)]

\* record_request(n), called by a caller that was told True for n
RecordRequest(w) ==
    /\ req[w].pc = "allowed"
    /\ Len(engine.log) < MaxRecords
    /\ engine' = RecordedLimiter(engine, req[w].n)
    /\ req' = [req EXCEPT ![w] = Caller("idle", 0)]

\* the process is started again: the module-level RateLimiter() reads the file
RestartLimiter(w) ==
    /\ req[w].pc \in {"idle", "refused"}
    /\ engine' = [engine EXCEPT !.rate_data = LoadRateData(engine.file, engine.now)]
    /\ req' = [req EXCEPT ![w] = Caller("idle", 0)]

\* time passes
Tick ==
    /\ \E t \in Instants :
           /\ t > engine.now
           /\ engine' = [engine EXCEPT !.now = t]
    /\ UNCHANGED req

InitLimiter ==
    /\ \E config \in LimitConfigs : engine = Limiter(config, NoFile, 0, <<>>)
    /\ req = [w \in Workers |-> IF w = 1 THEN Caller("idle", 0)
                                ELSE Caller("closed", 0)]

NextLimiter ==
    \/ \E w \in Workers : CanMakeRequest(w) \/ RecordRequest(w) \/ RestartLimiter(w)
    \/ Tick

SpecLimiter == InitLimiter /\ [][NextLimiter]_vars

\* the API calls recorded in the 3600 seconds that end at time t
RecordedInWindow(log, t) ==
    ApiCalls(SelectSeq(log, LAMBDA r : r.timestamp <= t /\ t - r.timestamp < Hour))

\* C24 as claimed: when every record_request(n) directly follows a
\* can_make_request(n) that returned True, the API calls recorded within any
\* rolling 3600-second window never exceed max_requests_per_hour, and
\* daily_count never exceeds max_requests_per_day, across resets and restarts.
C24_LimitsNeverExceeded ==
    /\ \A k \in 1..Len(engine.log) :
           RecordedInWindow(engine.log, engine.log[k].timestamp)
               <= engine.max_requests_per_hour
    /\ engine.rate_data.daily_count <= engine.max_requests_per_day

(***************************************************************************)
(* GitHubService.get_profile_data and the rate limiter                     *)
(***************************************************************************)
\* actual_api_calls of a fetch that succeeds: get_user, get_repos, and one
\* get_repo for each of the first two repositories
ActualApiCalls(gh) == 1 + 1 + Min(2, Len(ReposOf(gh.profile)))

\* a profile with three repositories
ProfileWithRepos ==
    [BaseSnapshot EXCEPT !.repositories = Section(Repeat(BaseRepo, 3))]

FetchStates == GitHubStates \cup {GitHubState(TRUE, TRUE, ProfileWithRepos)}

\* get_profile_data, the whole call: the try block ends in
\* rate_limiter.record_request(actual_api_calls, username); when the fetch
\* raises, nothing is recorded and mock data is returned
FetchProfile(w) ==
    /\ req[w].pc \in {"idle", "fetched"}
    /\ Len(engine.log) < MaxRecords
    /\ \E gh \in FetchStates :
           IF FetchFails(gh)
           THEN /\ req' = [req EXCEPT ![w] = Caller("fetched", 0)]
                /\ UNCHANGED engine
           ELSE /\ req' = [req EXCEPT ![w] = Caller("fetched", ActualApiCalls(gh))]
                /\ engine' = RecordedLimiter(engine, ActualApiCalls(gh))

NextFetch == (\E w \in Workers : FetchProfile(w)) \/ Tick

SpecFetch == InitLimiter /\ [][NextFetch]_vars

\* C25 as claimed: get_profile_data records API calls only when the
\* limiter's hourly and daily limits would not be exceeded, so daily_count
\* stays at or below max_requests_per_day across any sequence of calls.
C25_FetchKeepsDailyLimit ==
    engine.rate_data.daily_count <= engine.max_requests_per_day

(***************************************************************************)
(* _detect_burst_patterns on commit lists with busy days                   *)
(***************************************************************************)
\* the commits of a history given by its numbers of commits per day, on
\* consecutive days
RECURSIVE CommitsOnDays(_, _)
CommitsOnDays(perDay, day) ==
    IF perDay = <<>> THEN <<>>
    ELSE Repeat([BaseCommit EXCEPT !.date = Timestamp(day, 10, TRUE)],
                Head(perDay))
         \o CommitsOnDays(Tail(perDay), day + 1)

\* a day's number of commits, and the longest history drawn from them
DailyCounts == {1, 3, 10, 16}

MaxDays == 4

\* histories of up to MaxDays days, two bursts of 16 among five quiet days,
\* and the same with commits whose date does not parse
BurstHistories ==
    LET perDay == UNION {[1..n -> DailyCounts] : n \in 0..MaxDays}
                  \cup {<<16, 16, 1, 1, 1, 1, 1>>}
    IN  {CommitsOnDays(h, 1) \o Repeat(UnparsableCommit, u) :
            h \in perDay, u \in {0, 10}}

BurstCall(commits) == [pc |-> "called", commits |-> commits, score |-> Whole(0)]

\* _detect_burst_patterns, the whole call
DetectBurstPatternsCall(w) ==
    /\ req[w].pc = "called"
    /\ req' = [req EXCEPT ![w].pc = "scored",
                          ![w].score = DetectBurstPatterns(req[w].commits)]
    /\ UNCHANGED engine

InitBurst ==
    /\ engine = NewEngine
    /\ \E commits \in BurstHistories :
           req = [w \in Workers |-> IF w = 1 THEN BurstCall(commits) ELSE Closed]

NextBurst == \E w \in Workers : DetectBurstPatternsCall(w)

SpecBurst == InitBurst /\ [][NextBurst]_vars

\* C26: for every list of commits _detect_burst_patterns returns a value
\* strictly greater than 1/3 and at most 1, so the floor at 0 does not bind
\* and the detector's critical burst condition (burst_activity_score < 0.2)
\* is not met by the extracted value.
C26_BurstScoreAboveOneThird ==
    req[1].pc = "scored" =>
        /\ RGt(req[1].score, Rat(1, 3))
        /\ RLe(req[1].score, Whole(1))
        /\ ~HasSeverity(BurstActivityFlags([burst_activity_score |-> req[1].score]),
                        "critical")

\* two days of 16 commits among five days of one: two of seven days are
\* burst days and the score is 1 - 4/7
C26_Witness ==
    /\ req[1].pc = "scored"
    /\ Len(req[1].commits) = 37
    /\ req[1].score = Rat(3, 7)

(***************************************************************************)
(* The commit-frequency penalty of the fallback score                      *)
(***************************************************************************)
\* the snapshot with ten times the commits, in the same proportions
TenfoldCommits(s) ==
    [s EXCEPT !.commits = 10 * @, !.weekend_commits = 10 * @,
              !.night_commits = 10 * @]

\* the commit-frequency penalty contained in the penalties of vector f
FrequencyPenalty(f) ==
    RSub(PenaltySum(f), PenaltySum([f EXCEPT !.commit_frequency = Whole(50)]))

\* C27: in fallback mode the commit_frequency that is scored is at most 100,
\* the 20-point commit-frequency penalty is applied exactly when the
\* snapshot's commits per year are below 5, and a snapshot with at least 100
\* commits per year receives the same score as the one with ten times as
\* many commits in the same proportions.
C27_HighFrequencyNotPenalised ==
    \A w \in Workers :
        (Returned(w) /\ req[w].verdict.status = "ok") =>
            LET s == req[w].snap
                f == req[w].verdict.features
            IN  /\ RLe(f.commit_frequency, Whole(100))
                /\ req[w].verdict.authenticity_score
                       = ClampScore(RSub(Whole(100), PenaltySum(f)))
                /\ FrequencyPenalty(f)
                       = IF RLt(CommitFrequency(s), Whole(5)) THEN Whole(20)
                         ELSE Whole(0)
                /\ RLe(Whole(100), CommitFrequency(s)) =>
                       AnalyzeResult(engine, TenfoldCommits(s), req[w].oracle)
                           .authenticity_score
                           = req[w].verdict.authenticity_score

\* 200 commits in 10 days (7300 a year) scored 100: no penalty at all
C27_Witness ==
    \E w \in Workers :
        /\ Returned(w)
        /\ CommitFrequency(req[w].snap) = Whole(7300)
        /\ req[w].verdict.features.commit_frequency = Whole(100)
        /\ req[w].verdict.authenticity_score = 100

(***************************************************************************)
(* The totals of the activity patterns                                     *)
(***************************************************************************)
\* the sum of a histogram over 0..n-1 or over a set of names
RECURSIVE TotalOver(_, _)
TotalOver(h, keys) ==
    IF keys = {} THEN 0
    ELSE LET k == CHOOSE x \in keys : TRUE IN h[k] + TotalOver(h, keys \ {k})

Total(h) == TotalOver(h, DOMAIN h)

\* C28: in the activity patterns of a verdict the hourly, weekday, monthly
\* and commit-size histograms have the same total, the number of commits
\* whose timestamp parsed (at most len(commits)), and the contribution_types
\* tally sums to len(commits).
C28_HistogramTotals ==
    \A i \in 1..Len(Runs) :
        RunOk(i) =>
            LET a == Runs[i].activity_patterns
                commits == CommitsOf(RawSnap)
                parsed == Len(ParsedDates(commits))
            IN  /\ Total(a.hourly_distribution) = parsed
                /\ Total(a.daily_distribution) = parsed
                /\ Total(a.monthly_distribution) = parsed
                /\ Total(a.commit_size_distribution) = parsed
                /\ parsed <= Len(commits)
                /\ Total(a.contribution_types) = Len(commits)

\* twelve commits of which three have a date that does not parse: the
\* histograms total 9, the tally 12
C28_Witness ==
    /\ Len(Runs) >= 1
    /\ RunOk(1)
    /\ Len(CommitsOf(RawSnap)) = 12
    /\ Total(Runs[1].activity_patterns.commit_size_distribution) = 9
    /\ Total(Runs[1].activity_patterns.hourly_distribution) = 9
    /\ Total(Runs[1].activity_patterns.contribution_types) = 12
    /\ Runs[1].activity_patterns.contribution_types["features"] < 12

(***************************************************************************)
(* The mode of the score and the mode of the red flags                     *)
(***************************************************************************)
\* the verdict of request w carries the ML model alert
HasMLAlert(w) == HasFlag(req[w].verdict.red_flags, "ml_suspicious", "high")

\* C29: within one analyze_profile call, when the model path failed and the
\* score came from the rule-based fallback (confidence 75) the verdict has
\* no ml_suspicious flag, an engine without a model never adds one, and when
\* the flag is present the score is the classifier's and is below 30.
C29_ScoreAndFlagsSameMode ==
    \A w \in Workers :
        (Returned(w) /\ req[w].verdict.status = "ok") =>
            LET v == req[w].verdict
                o == req[w].oracle
            IN  /\ (UsesModel(engine) /\ ModelPathFails(o)) =>
                       /\ v.confidence = 75
                       /\ v.authenticity_score = PredictWithRules(v.features)[1]
                       /\ ~HasMLAlert(w)
                /\ ~UsesModel(engine) => ~HasMLAlert(w)
                /\ HasMLAlert(w) =>
                       /\ UsesModel(engine)
                       /\ o.kind = "proba"
                       /\ v.authenticity_score = ModelPrediction(o)[1]
                       /\ v.authenticity_score < 30

\* predict_proba raised in an engine that loaded its model: the rules scored
\* the snapshot below 30 with confidence 75, and no ML alert was added
C29_Witness ==
    \E w \in Workers :
        /\ Returned(w)
        /\ UsesModel(engine)
        /\ req[w].oracle.kind = "raises"
        /\ req[w].oracle.at = "predict_proba"
        /\ req[w].verdict.confidence = 75
        /\ req[w].verdict.authenticity_score < 30
        /\ req[w].verdict.red_flags # <<>>
        /\ ~HasMLAlert(w)

(***************************************************************************)
(* The summary of a produced list of red flags                             *)
(***************************************************************************)
Summarised == req[1].pc = "summarised"

\* C30: for every list generate_enhanced_red_flags produces,
\* get_red_flag_summary returns a total equal to the list length, to the sum
\* of its critical, high, medium and low counts and to the sum of its
\* per-category counts (category: the id up to its first underscore), and
\* no two flags of the list share an id.
C30_SummaryTotals ==
    Summarised =>
        LET flags == req[1].red_flags
            summary == req[1].summary
        IN  /\ summary.total = Len(flags)
            /\ summary.total = summary.critical + summary.high + summary.medium
                               + summary.low
            /\ summary.total = Total(summary.categories)
            /\ Cardinality({flags[i].id : i \in 1..Len(flags)}) = Len(flags)

\* a list of six or more flags with two in category "extreme", one of
\* severity low and two critical
C30_Witness ==
    /\ Summarised
    /\ req[1].summary.total >= 6
    /\ "extreme" \in DOMAIN req[1].summary.categories
    /\ req[1].summary.categories["extreme"] >= 2
    /\ req[1].summary.low >= 1
    /\ req[1].summary.critical >= 2
====
